---- MODULE Spec2Model ----
(***************************************************************************)
(* Meal plan generation (lambdas/meals/generatePlan.ts) and single-slot    *)
(* update (lambdas/meals/updateMeal.ts) of the HOH household planner,      *)
(* together with the tables they read and write and the recipe service     *)
(* they call (lambdas/shared/spoonacular.ts).                              *)
(*                                                                         *)
(* Representation:                                                          *)
(*  - a JavaScript object is a TLA+ record whose DOMAIN is its key set, so  *)
(*    a missing key is a key outside the DOMAIN;                            *)
(*  - a property that the code may set to null holds Null or Some(v);       *)
(*  - a YYYY-MM-DD string is the triple <<year, month, day>>;               *)
(*  - Lambda runs with TZ=UTC, so local and UTC calendar fields coincide.   *)
(***************************************************************************)
EXTENDS Integers, Sequences, FiniteSets, TLC

VARIABLES
    prefsTable,   \* USERS_TABLE items  PK=HOUSEHOLD#h, SK=PREFERENCES
    membersTable, \* USERS_TABLE items  PK=HOUSEHOLD#h, SK begins_with MEMBER#
    plansTable,   \* MEAL_PLANS_TABLE items, keyed by <<PK, SK>>
    req,          \* per Lambda invocation: position in the handler and its locals
    now,          \* the clock read by Date.now() / new Date()
    rng,          \* state of the generator behind Math.random()
    concurrency   \* how many invocations the platform runs at the same time

vars == <<prefsTable, membersTable, plansTable, req, now, rng, concurrency>>

----------------------------------------------------------------------------
(* Bounds of the exploration *)

MaxClock == 2      \* number of requests served in one behaviour
MaxSeed == 1       \* generator states 0..MaxSeed

----------------------------------------------------------------------------
(* null / undefined *)

Null == <<>>
Some(v) == <<v>>

Has(obj, k) == k \in DOMAIN obj

\* obj.k || dflt  for a property that is a non-empty string or list when set
GetOr(obj, k, dflt) == IF Has(obj, k) THEN obj[k] ELSE dflt

\* { ...a, ...b }
Spread(a, b) ==
    [k \in (DOMAIN a) \cup (DOMAIN b) |-> IF k \in DOMAIN b THEN b[k] ELSE a[k]]

----------------------------------------------------------------------------
(* JavaScript Date arithmetic on calendar triples *)

IsLeap(y) == (y % 4 = 0 /\ y % 100 # 0) \/ y % 400 = 0

DaysInMonth(y, m) ==
    IF m = 2 THEN (IF IsLeap(y) THEN 29 ELSE 28)
    ELSE IF m \in {4, 6, 9, 11} THEN 30 ELSE 31

InvalidDate == <<0, 0, 0>>

\* MakeDay normalisation: a day-of-month past the end of the month rolls over
RECURSIVE Normalize(_, _, _)
Normalize(y, m, d) ==
    IF d <= DaysInMonth(y, m) THEN <<y, m, d>>
    ELSE IF m = 12 THEN Normalize(y + 1, 1, d - DaysInMonth(y, m))
    ELSE Normalize(y, m + 1, d - DaysInMonth(y, m))

\* new Date(s) for s = YYYY-MM-DD: V8 accepts month 1..12 and day 1..31 and
\* normalises; anything else is Invalid Date
ParseDate(s) ==
    IF s[2] \in 1..12 /\ s[3] \in 1..31
    THEN Normalize(s[1], s[2], s[3]) ELSE InvalidDate

\* SetDate without the roll-over into the next month
SetDateNoRollOver(start, n) == <<start[1], start[2], start[3] + n>>

\* const date = new Date(start); date.setDate(start.getDate() + n)
SetDate(start, n) == Normalize(start[1], start[2], start[3] + n)

----------------------------------------------------------------------------
(* Users, households, family members, preferences *)

Users == {"u1"}

\* the householdId of the user's profile: u2 belongs to a second household
HouseholdOf(u) == IF u = "u2" THEN "hB" ELSE "hA"

PK(h) == "HOUSEHOLD#" \o h
PlanKey(h, startDate) == <<PK(h), <<"PLAN#", startDate>>>>

Ann ==
    [id |-> "ann", name |-> "Ann",
     dietaryRestrictions |-> <<"vegan", "vegetarian">>,
     allergies |-> <<"nuts">>]

Jake ==
    [id |-> "jake", name |-> "Jake", sameAsAdults |-> FALSE,
     dietaryRestrictions |-> <<"vegetarian">>,
     allergies |-> <<>>]

Mia ==
    [id |-> "mia", name |-> "Mia", sameAsAdults |-> FALSE,
     dietaryRestrictions |-> <<"Keto">>,
     allergies |-> <<"milk">>,
     mealPreferences |->
        [breakfast |-> <<"cereal">>, lunch |-> <<>>,
         dinner |-> <<"Mac Cheese", "pizza">>]]

Families == { <<Ann>>, <<Ann, Mia, Jake>> }

Modes == {"user_preference", "ai_suggest", "ai_and_user"}

NoLists ==
    [typicalBreakfast |-> <<>>, typicalLunch |-> <<>>,
     typicalDinner |-> <<>>, typicalSnacks |-> <<>>]

ListsA ==
    [typicalBreakfast |-> <<"eggs", "oatmeal">>, typicalLunch |-> <<>>,
     typicalDinner |-> <<"pasta">>, typicalSnacks |-> <<"fruit", "nuts">>]

ListConfigs == {NoLists, ListsA}

MealTypes == <<"breakfast", "lunch", "dinner", "snacks">>

Days ==
    <<"monday", "tuesday", "wednesday", "thursday", "friday", "saturday",
      "sunday">>

StartDates == { <<2025, 1, 6>>, <<2025, 12, 29>> }

----------------------------------------------------------------------------
(* Recipe Suggestion Service (shared/spoonacular.ts) *)

\* SpoonacularMeal
Recipe(id) ==
    [id |-> id,
     title |-> "recipe-" \o ToString(id),
     readyInMinutes |-> 30,
     servings |-> 4,
     sourceUrl |-> "https://recipes.example/" \o ToString(id),
     image |-> "https://img.example/" \o ToString(id)]

DayIndex(day) == (CHOOSE i \in 1..Len(Days) : Days[i] = day) - 1

\* number of meals the service returned for day i of a week of the given shape
MealsReturned(shape, i) ==
    IF shape = "full" THEN 3
    ELSE IF i = 1 THEN 1 ELSE IF i = 2 THEN 0 ELSE 3

\* SpoonacularWeekPlan: recipe ids are base + 3 * day + position
Week(base, shape) ==
    [week |->
        [day \in {Days[i] : i \in 1..Len(Days)} |->
            [meals |->
                [p \in 1..MealsReturned(shape, DayIndex(day)) |->
                    Recipe(base + 3 * DayIndex(day) + (p - 1))]]]]

WeekReplies == { Week(100, "full"), Week(200, "sparse") }

\* response.status of a failed fetch
FailStatus == {402, 500}

\* throw new Error(`Spoonacular API error: ${response.status}`)
ApiError(status) == "Spoonacular API error: " \o ToString(status)

\* complexSearch results
SearchReplies ==
    { <<>>, <<Recipe(100)>>, <<Recipe(100), Recipe(101)>> }

Lower(s) == CASE s = "Keto" -> "keto" [] OTHER -> s

dietMap ==
    [r \in {"vegetarian", "vegan", "gluten-free", "dairy-free", "keto", "paleo"} |->
        CASE r = "gluten-free" -> "gluten free"
          [] r = "dairy-free" -> "dairy free"
          [] r = "keto" -> "ketogenic"
          [] OTHER -> r]

RECURSIVE mapDietaryRestrictions(_)

\* first restriction, in list order, that the map knows; else undefined
mapDietaryRestrictions(restrictions) ==
    IF restrictions = <<>> THEN Null
    ELSE IF Lower(Head(restrictions)) \in DOMAIN dietMap
         THEN Some(dietMap[Lower(Head(restrictions))])
         ELSE mapDietaryRestrictions(Tail(restrictions))

\* allergies.join(',')
RECURSIVE mapAllergiesToExclude(_)
mapAllergiesToExclude(allergies) ==
    IF allergies = <<>> THEN ""
    ELSE IF Len(allergies) = 1 THEN Head(allergies)
    ELSE Head(allergies) \o "," \o mapAllergiesToExclude(Tail(allergies))

\* exclude || undefined
OrUndefined(str) == IF str = "" THEN Null ELSE Some(str)

Range(seq) == { seq[i] : i \in 1..Len(seq) }

\* items.forEach(x => set.add(x)) on an insertion-ordered Set
RECURSIVE AddAll(_, _)
AddAll(set, items) ==
    IF items = <<>> THEN set
    ELSE AddAll(IF Head(items) \in Range(set) THEN set ELSE Append(set, Head(items)),
                Tail(items))

\* for (const member of members) { ...forEach(add) } over one property
RECURSIVE Aggregate(_, _, _)
Aggregate(set, members, prop) ==
    IF members = <<>> THEN set
    ELSE Aggregate(AddAll(set, GetOr(Head(members), prop, <<>>)), Tail(members), prop)

\* array.filter(pred) for the two member predicates of the handlers
SameMeals(m) == ~(Has(m, "sameAsAdults") /\ m.sameAsAdults = FALSE)

RECURSIVE FilterMembers(_, _)

\* FilterMembers with every member passing the filter
FilterMembersEveryone(members, same) == members

FilterMembers(members, same) ==
    IF members = <<>> THEN <<>>
    ELSE IF SameMeals(Head(members)) = same
         THEN <<Head(members)>> \o FilterMembers(Tail(members), same)
         ELSE FilterMembers(Tail(members), same)

----------------------------------------------------------------------------
(* Math.random(): a generator in state s returns s / RandDen and moves to   *)
(* the next state; Draw(seed, k) is the k-th draw after state `seed`        *)

RandDen == MaxSeed + 1

Draw(seed, k) == (seed + k) % RandDen

\* arr[Math.floor(Math.random() * arr.length)]
pickRandom(arr, x) == arr[((x * Len(arr)) \div RandDen) + 1]

\* mealName.toLowerCase().replace(/\s+/g, '-')
Slug(name) == CASE name = "Mac Cheese" -> "mac-cheese" [] OTHER -> name

generateMealId(mealName, t) == "user-" \o Slug(mealName) \o "-" \o ToString(t)

\* properties of a meal object that the handlers may set to null
NullableKeys == {"recipeImage", "readyInMinutes", "servings", "sourceUrl", "forMembers"}

\* keep the entries whose value is neither undefined nor null
cleanMealObject(meal) ==
    [k \in {key \in DOMAIN meal : ~(key \in NullableKeys /\ meal[key] = Null)} |->
        meal[k]]

----------------------------------------------------------------------------
(* generatePlan.ts: building the meals array *)

\* preferences.typicalX || []
TypicalLists(preferences) ==
    [typicalBreakfast |-> GetOr(preferences, "typicalBreakfast", <<>>),
     typicalLunch     |-> GetOr(preferences, "typicalLunch", <<>>),
     typicalDinner    |-> GetOr(preferences, "typicalDinner", <<>>),
     typicalSnacks    |-> GetOr(preferences, "typicalSnacks", <<>>)]

\* userMealsFor with the dinner list copied into the lunch branch
userMealsForLunchIsDinner(lists, mealType) ==
    IF mealType = "breakfast" THEN lists.typicalBreakfast
    ELSE IF mealType = "lunch" THEN lists.typicalDinner
    ELSE IF mealType = "dinner" THEN lists.typicalDinner
    ELSE lists.typicalSnacks

userMealsFor(lists, mealType) ==
    IF mealType = "breakfast" THEN lists.typicalBreakfast
    ELSE IF mealType = "lunch" THEN lists.typicalLunch
    ELSE IF mealType = "dinner" THEN lists.typicalDinner
    ELSE lists.typicalSnacks

\* hasAnyTypicalMeals of a handler without the precondition
hasAnyTypicalMealsUnchecked(lists) == TRUE

hasAnyTypicalMeals(lists) ==
    \/ Len(lists.typicalBreakfast) > 0
    \/ Len(lists.typicalLunch) > 0
    \/ Len(lists.typicalDinner) > 0
    \/ Len(lists.typicalSnacks) > 0

\* ['Adults', ...membersWithSameMeals.map(m => m.name)]
adultMemberNames(sameMembers) ==
    <<"Adults">> \o [i \in 1..Len(sameMembers) |-> sameMembers[i].name]

\* membersWithDifferentMeals.map(m => ({ id, name, mealPreferences }))
kidMemberData(diffMembers) ==
    [i \in 1..Len(diffMembers) |->
        [id |-> diffMembers[i].id,
         name |-> diffMembers[i].name,
         mealPreferences |->
            IF Has(diffMembers[i], "mealPreferences")
            THEN Some(diffMembers[i].mealPreferences) ELSE Null]]

kidMealsForType(kid, mealType) ==
    IF kid.mealPreferences = Null THEN <<>>
    ELSE IF mealType = "breakfast" THEN kid.mealPreferences[1].breakfast
    ELSE IF mealType = "lunch" THEN kid.mealPreferences[1].lunch
    ELSE kid.mealPreferences[1].dinner

\* aiMealIndex with lunch reading the dinner position
aiMealIndexLunchIsDinner(mealType) ==
    IF mealType = "breakfast" THEN 0 ELSE 2

aiMealIndex(mealType) ==
    IF mealType = "breakfast" THEN 0 ELSE IF mealType = "lunch" THEN 1 ELSE 2

\* plan && plan.week[day]?.meals?.[aiMealIndex]
aiRecipe(plan, day, mealType) ==
    IF plan = Null THEN Null
    ELSE IF aiMealIndex(mealType) + 1 <= Len(plan[1].week[day].meals)
         THEN Some(plan[1].week[day].meals[aiMealIndex(mealType) + 1])
         ELSE Null

\* the object pushed for a meal taken from a recurring list (shared slot)
UserMeal(dateStr, day, mealType, mealName, t, forMembers) ==
    [date |-> dateStr, day |-> day, mealType |-> mealType,
     recipeId |-> generateMealId(mealName, t),
     recipeName |-> mealName,
     recipeImage |-> Null, readyInMinutes |-> Null,
     servings |-> Null, sourceUrl |-> Null,
     source |-> "user_preference", isUserMeal |-> TRUE,
     forMembers |-> forMembers]

\* the object pushed for a meal taken from the week batch (shared slot)
AiMeal(dateStr, day, mealType, recipe, forMembers) ==
    [date |-> dateStr, day |-> day, mealType |-> mealType,
     recipeId |-> ToString(recipe.id),
     recipeName |-> recipe.title,
     recipeImage |-> Some("https://spoonacular.com/recipeImages/" \o ToString(recipe.id) \o "-312x231.jpg"),
     readyInMinutes |-> Some(recipe.readyInMinutes),
     servings |-> Some(recipe.servings),
     sourceUrl |-> Some(recipe.sourceUrl),
     source |-> "ai_suggest", isUserMeal |-> FALSE,
     forMembers |-> forMembers]

\* the object pushed for a kid from a recurring list
KidUserMeal(dateStr, day, mealType, mealName, t, kid) ==
    [date |-> dateStr, day |-> day, mealType |-> mealType,
     recipeId |-> "kid-" \o kid.id \o "-" \o generateMealId(mealName, t),
     recipeName |-> mealName,
     recipeImage |-> Null, readyInMinutes |-> Null,
     servings |-> Some(1), sourceUrl |-> Null,
     source |-> "user_preference", isUserMeal |-> TRUE,
     forMembers |-> Some(<<kid.name>>),
     forMemberId |-> kid.id]

\* the object pushed for a kid from the kid week batch
\* KidAiMeal without the forMemberId of the kid
KidAiMealUntagged(dateStr, day, mealType, recipe, kid) ==
    [date |-> dateStr, day |-> day, mealType |-> mealType,
     recipeId |-> "kid-" \o kid.id \o "-" \o ToString(recipe.id),
     recipeName |-> recipe.title,
     recipeImage |-> Some("https://spoonacular.com/recipeImages/" \o ToString(recipe.id) \o "-312x231.jpg"),
     readyInMinutes |-> Some(recipe.readyInMinutes),
     servings |-> Some(1),
     sourceUrl |-> Some(recipe.sourceUrl),
     source |-> "ai_suggest", isUserMeal |-> FALSE,
     forMembers |-> Some(<<kid.name>>)]

KidAiMeal(dateStr, day, mealType, recipe, kid) ==
    [date |-> dateStr, day |-> day, mealType |-> mealType,
     recipeId |-> "kid-" \o kid.id \o "-" \o ToString(recipe.id),
     recipeName |-> recipe.title,
     recipeImage |-> Some("https://spoonacular.com/recipeImages/" \o ToString(recipe.id) \o "-312x231.jpg"),
     readyInMinutes |-> Some(recipe.readyInMinutes),
     servings |-> Some(1),
     sourceUrl |-> Some(recipe.sourceUrl),
     source |-> "ai_suggest", isUserMeal |-> FALSE,
     forMembers |-> Some(<<kid.name>>),
     forMemberId |-> kid.id]

\* SharedMeal filling an ai_suggest slot from the recurring list when the
\* batch has no entry
SharedMealListFallback(g, index, mealType, x) ==
    LET day == Days[index + 1]
        dateStr == SetDate(ParseDate(g.startDate), index)
        userMeals == userMealsFor(g.lists, mealType)
        forMembers == IF Len(g.kids) > 0 THEN Some(g.adultMemberNames) ELSE Null
        fromList == Some(UserMeal(dateStr, day, mealType, pickRandom(userMeals, x),
                                  g.t, forMembers))
        recipe == aiRecipe(g.aiPlan, day, mealType)
        fromBatch == IF recipe = Null THEN Null
                     ELSE Some(AiMeal(dateStr, day, mealType, recipe[1], forMembers))
    IN  IF g.mealSuggestionMode = "user_preference"
        THEN (IF Len(userMeals) > 0 THEN fromList ELSE Null)
        ELSE IF g.mealSuggestionMode = "ai_and_user"
        THEN LET useUserMeal == index % 2 = 0 /\ Len(userMeals) > 0
             IN  IF mealType = "snacks"
                 THEN (IF Len(userMeals) > 0 THEN fromList ELSE Null)
                 ELSE IF useUserMeal THEN fromList
                 ELSE fromBatch
        ELSE IF mealType = "snacks"
             THEN (IF Len(userMeals) > 0 THEN fromList ELSE Null)
             ELSE IF recipe = Null /\ Len(userMeals) > 0 THEN fromList
             ELSE fromBatch

\* lines 177-301: the shared meal of (index, mealType), Null when none is
\* pushed; x is the draw a pickRandom call would get
SharedMeal(g, index, mealType, x) ==
    LET day == Days[index + 1]
        dateStr == SetDate(ParseDate(g.startDate), index)
        userMeals == userMealsFor(g.lists, mealType)
        forMembers == IF Len(g.kids) > 0 THEN Some(g.adultMemberNames) ELSE Null
        fromList == Some(UserMeal(dateStr, day, mealType, pickRandom(userMeals, x),
                                  g.t, forMembers))
        recipe == aiRecipe(g.aiPlan, day, mealType)
        fromBatch == IF recipe = Null THEN Null
                     ELSE Some(AiMeal(dateStr, day, mealType, recipe[1], forMembers))
    IN  IF g.mealSuggestionMode = "user_preference"
        THEN (IF Len(userMeals) > 0 THEN fromList ELSE Null)
        ELSE IF g.mealSuggestionMode = "ai_and_user"
        THEN LET useUserMeal == index % 2 = 0 /\ Len(userMeals) > 0
             IN  IF mealType = "snacks"
                 THEN (IF Len(userMeals) > 0 THEN fromList ELSE Null)
                 ELSE IF useUserMeal THEN fromList
                 ELSE fromBatch
        ELSE IF mealType = "snacks"
             THEN (IF Len(userMeals) > 0 THEN fromList ELSE Null)
             ELSE fromBatch

\* KidMeal reading the shared batch where line 396 reads the kids' batch
KidMealSharedBatch(g, index, mealType, kid, x) ==
    LET day == Days[index + 1]
        dateStr == SetDate(ParseDate(g.startDate), index)
        userMeals == userMealsFor(g.lists, mealType)
        kidMeals == kidMealsForType(kid, mealType)
        recipe == aiRecipe(g.aiPlan, day, mealType)
        fromBatch == IF recipe = Null THEN Null
                     ELSE Some(KidAiMeal(dateStr, day, mealType, recipe[1], kid))
    IN  IF g.mealSuggestionMode = "user_preference"
        THEN IF Len(kidMeals) > 0
             THEN Some(KidUserMeal(dateStr, day, mealType, pickRandom(kidMeals, x), g.t, kid))
             ELSE IF Len(userMeals) > 0
             THEN Some(KidUserMeal(dateStr, day, mealType, pickRandom(userMeals, x), g.t, kid))
             ELSE Null
        ELSE IF g.mealSuggestionMode = "ai_and_user"
        THEN LET useKidMeal == index % 2 = 0 /\ Len(kidMeals) > 0
             IN  IF useKidMeal
                 THEN Some(KidUserMeal(dateStr, day, mealType, pickRandom(kidMeals, x), g.t, kid))
                 ELSE fromBatch
        ELSE fromBatch

\* lines 306-420: the meal of one kid for (index, mealType), Null when none
KidMeal(g, index, mealType, kid, x) ==
    LET day == Days[index + 1]
        dateStr == SetDate(ParseDate(g.startDate), index)
        userMeals == userMealsFor(g.lists, mealType)
        kidMeals == kidMealsForType(kid, mealType)
        recipe == aiRecipe(g.kidAiPlan, day, mealType)
        fromBatch == IF recipe = Null THEN Null
                     ELSE Some(KidAiMeal(dateStr, day, mealType, recipe[1], kid))
    IN  IF g.mealSuggestionMode = "user_preference"
        THEN IF Len(kidMeals) > 0
             THEN Some(KidUserMeal(dateStr, day, mealType, pickRandom(kidMeals, x), g.t, kid))
             ELSE IF Len(userMeals) > 0
             THEN Some(KidUserMeal(dateStr, day, mealType, pickRandom(userMeals, x), g.t, kid))
             ELSE Null
        ELSE IF g.mealSuggestionMode = "ai_and_user"
        THEN LET useKidMeal == index % 2 = 0 /\ Len(kidMeals) > 0
             IN  IF useKidMeal
                 THEN Some(KidUserMeal(dateStr, day, mealType, pickRandom(kidMeals, x), g.t, kid))
                 ELSE fromBatch
        ELSE fromBatch

\* The k-th Math.random() call of a request is Draw(seed, k).  Which calls a
\* request makes depends on its inputs, so the draws are numbered by the loop
\* position that makes them: position (index, mealType, who) draws number
\* DrawNo(index, mt, who), who = 0 being the shared meal.
DrawNo(g, index, mt, who) ==
    ((index * Len(MealTypes)) + (mt - 1)) * (Len(g.kids) + 1) + who

Opt(meal) == IF meal = Null THEN <<>> ELSE <<meal[1]>>

\* kidMemberData.forEach (lines 306-421), from kid number `who` on
RECURSIVE ForEachKid(_, _, _, _)
ForEachKid(g, index, mt, who) ==
    IF who > Len(g.kids) THEN <<>>
    ELSE Opt(KidMeal(g, index, MealTypes[mt], g.kids[who],
                     Draw(g.seed, DrawNo(g, index, mt, who))))
         \o ForEachKid(g, index, mt, who + 1)

RECURSIVE ForEachMealType(_, _, _)

\* ForEachMealType without the snacks test of line 304
ForEachMealTypeKidSnacks(g, index, mt) ==
    IF mt > Len(MealTypes) THEN <<>>
    ELSE Opt(SharedMeal(g, index, MealTypes[mt], Draw(g.seed, DrawNo(g, index, mt, 0))))
         \o (IF Len(g.kids) > 0
             THEN ForEachKid(g, index, mt, 1) ELSE <<>>)
         \o ForEachMealType(g, index, mt + 1)

\* mealTypes.forEach (lines 165-423), from meal type number `mt` on
ForEachMealType(g, index, mt) ==
    IF mt > Len(MealTypes) THEN <<>>
    ELSE Opt(SharedMeal(g, index, MealTypes[mt], Draw(g.seed, DrawNo(g, index, mt, 0))))
         \o (IF Len(g.kids) > 0 /\ MealTypes[mt] # "snacks"
             THEN ForEachKid(g, index, mt, 1) ELSE <<>>)
         \o ForEachMealType(g, index, mt + 1)

\* days.forEach (lines 158-424), from day `index` on
RECURSIVE ForEachDay(_, _)
ForEachDay(g, index) ==
    IF index = Len(Days) THEN <<>>
    ELSE ForEachMealType(g, index, 1) \o ForEachDay(g, index + 1)

BuildMeals(g) == ForEachDay(g, 0)

\* meals.slice(lo - 1, hi).map(cleanMealObject)
RECURSIVE CleanRange(_, _, _)
CleanRange(meals, lo, hi) ==
    IF lo > hi THEN <<>>
    ELSE IF lo = hi THEN <<cleanMealObject(meals[lo])>>
    ELSE CleanRange(meals, lo, (lo + hi) \div 2)
         \o CleanRange(meals, ((lo + hi) \div 2) + 1, hi)

CleanAll(meals) == CleanRange(meals, 1, Len(meals))

----------------------------------------------------------------------------
(* Requests *)

Procs == {1, 2}

\* 90 * 24 * 60 * 60
RetentionSeconds == 7776000

Idle ==
    [pc |-> "idle", op |-> "none", status |-> 0, message |-> "",
     calls |-> <<>>, puts |-> 0, l |-> <<>>]

\* return error(statusCode, message) / the catch block's return
Respond(r, statusCode, message) ==
    [r EXCEPT !.pc = "idle", !.status = statusCode, !.message = message]

\* Caught taking every error of the service for the quota signal
CaughtAnyApiError(r, errMessage) ==
    IF errMessage \in { ApiError(status) : status \in FailStatus }
    THEN Respond(r, 429, "Daily recipe quota exceeded")
    ELSE Respond(r, 500, "Failed")

\* catch (err): a message containing '402' is the quota signal
Caught(r, errMessage) ==
    IF errMessage = ApiError(402)
    THEN Respond(r, 429, "Daily recipe quota exceeded")
    ELSE Respond(r, 500, "Failed")

\* docClient.send(new PutCommand({ Item })) has been issued
SendPut(r, locals, item) ==
    [r EXCEPT !.pc = "put", !.l = Spread(locals, [item |-> item])]

\* PutItem as an update that keeps the attributes the new item lacks
PutItemMerge(table, item) ==
    [k \in (DOMAIN table) \cup {<<item.PK, item.SK>>} |->
        IF k = <<item.PK, item.SK>>
        THEN (IF k \in DOMAIN table THEN Spread(table[k], item) ELSE item)
        ELSE table[k]]

\* PutCommand: the item replaces whatever the table holds under its key
PutItem(table, item) ==
    [k \in (DOMAIN table) \cup {<<item.PK, item.SK>>} |->
        IF k = <<item.PK, item.SK>> THEN item ELSE table[k]]

\* lines 426-448: the Item of the PutCommand of generatePlan
GeneratedItem(g, userId, householdId, clock) ==
    [PK |-> PK(householdId),
     SK |-> <<"PLAN#", g.startDate>>,
     startDate |-> g.startDate,
     endDate |-> SetDate(ParseDate(g.startDate), 6),
     meals |-> CleanAll(BuildMeals(g)),
     mealSuggestionMode |-> g.mealSuggestionMode,
     generatedBy |-> userId,
     generatedAt |-> clock,
     ttl |-> clock + RetentionSeconds]

\* lines 157-448 once the batches are in: build, then put; an Invalid Date
\* makes toISOString() throw a RangeError
BuildAndPut(r, g, clock) ==
    IF ParseDate(g.startDate) = InvalidDate
    THEN Caught(r, "Invalid time value")
    ELSE SendPut(r, g, GeneratedItem(g, r.userId, r.householdId, clock))

WeekCall(diet, exclude) ==
    [api |-> "generateMealPlan", timeFrame |-> "week", diet |-> diet,
     exclude |-> OrUndefined(exclude)]

\* the generator has moved on when a request has drawn from it
DrawsOfBuild(r) == IF r.pc = "put" THEN 1 ELSE 0

Busy == {p \in Procs : req[p].pc # "idle"}

\* a new invocation gets the first free execution environment, if the
\* platform's concurrency allows one more
CanStart(p) ==
    /\ req[p].pc = "idle"
    /\ \A q \in Procs : q < p => req[q].pc # "idle"
    /\ Cardinality(Busy) < concurrency

\* lines 44-106, 149-155: what the handler has read and derived before the
\* precondition check
GenerateLocals(preferences, familyMembers, startDate, seed, t) ==
    LET membersWithSameMeals == FilterMembers(familyMembers, TRUE)
        membersWithDifferentMeals == FilterMembers(familyMembers, FALSE)
        diet == mapDietaryRestrictions(
                    Aggregate(<<>>, membersWithSameMeals, "dietaryRestrictions"))
        exclude == mapAllergiesToExclude(
                    Aggregate(<<>>, membersWithSameMeals, "allergies"))
        kidDiet == mapDietaryRestrictions(
                    Aggregate(<<>>, membersWithDifferentMeals, "dietaryRestrictions"))
        kidExclude == mapAllergiesToExclude(
                    Aggregate(<<>>, membersWithDifferentMeals, "allergies"))
    IN  [startDate |-> startDate,
         mealSuggestionMode |-> GetOr(preferences, "mealSuggestionMode", "ai_and_user"),
         lists |-> TypicalLists(preferences),
         adultMemberNames |-> adultMemberNames(membersWithSameMeals),
         kids |-> kidMemberData(membersWithDifferentMeals),
         adultCall |-> WeekCall(diet, exclude),
         kidCall |-> WeekCall(kidDiet, kidExclude),
         aiPlan |-> Null, kidAiPlan |-> Null,
         seed |-> seed, t |-> t]

\* callsSpoonacular with the mode test left out
callsSpoonacularAlways(mealSuggestionMode) == TRUE

\* line 126: only these modes call the service
callsSpoonacular(mealSuggestionMode) ==
    mealSuggestionMode = "ai_suggest" \/ mealSuggestionMode = "ai_and_user"

\* generatePlan.ts lines 25-147 up to the first await that leaves the handler
GenerateStart(p, userId, startDate) ==
    /\ CanStart(p)
    /\ now < MaxClock
    /\ now' = now + 1
    /\ LET householdId == HouseholdOf(userId)
           g == GenerateLocals(prefsTable[householdId], membersTable[householdId],
                               startDate, rng, now')
           r == [Idle EXCEPT !.op = "generate"] @@
                [userId |-> userId, householdId |-> householdId]
       IN  req' = [req EXCEPT ![p] =
              IF startDate = Null
              THEN Respond(r, 400, "startDate is required (YYYY-MM-DD)")
              ELSE IF g.mealSuggestionMode = "user_preference" /\ ~hasAnyTypicalMeals(g.lists)
              THEN Respond(r, 400, "no typical meals saved")
              ELSE IF callsSpoonacular(g.mealSuggestionMode)
              THEN [r EXCEPT !.pc = "week1", !.l = g, !.calls = <<g.adultCall>>]
              ELSE BuildAndPut(r, g, now')]
    /\ rng' = (rng + DrawsOfBuild(req'[p])) % RandDen
    /\ UNCHANGED <<prefsTable, membersTable, plansTable, concurrency>>

\* Week1Reply with the kid call and its await left out
Week1ReplyNoKidCall(p, reply) ==
    /\ req[p].pc = "week1"
    /\ LET r == req[p]
           g == [r.l EXCEPT !.aiPlan = Some(reply), !.seed = rng]
       IN  req' = [req EXCEPT ![p] = BuildAndPut(r, g, now)]
    /\ rng' = (rng + DrawsOfBuild(req'[p])) % RandDen
    /\ UNCHANGED <<prefsTable, membersTable, plansTable, now, concurrency>>

\* line 128 resolves: aiPlan is set; line 136 decides on the kid call
Week1Reply(p, reply) ==
    /\ req[p].pc = "week1"
    /\ LET r == req[p]
           g == [r.l EXCEPT !.aiPlan = Some(reply), !.seed = rng]
       IN  req' = [req EXCEPT ![p] =
              IF Len(g.kids) > 0
              THEN [r EXCEPT !.pc = "week2", !.l = g,
                             !.calls = Append(r.calls, g.kidCall)]
              ELSE BuildAndPut(r, g, now)]
    /\ rng' = (rng + DrawsOfBuild(req'[p])) % RandDen
    /\ UNCHANGED <<prefsTable, membersTable, plansTable, now, concurrency>>

\* line 138 resolves: kidAiPlan is set
Week2Reply(p, reply) ==
    /\ req[p].pc = "week2"
    /\ LET r == req[p]
           g == [r.l EXCEPT !.kidAiPlan = Some(reply), !.seed = rng]
       IN  req' = [req EXCEPT ![p] = BuildAndPut(r, g, now)]
    /\ rng' = (rng + DrawsOfBuild(req'[p])) % RandDen
    /\ UNCHANGED <<prefsTable, membersTable, plansTable, now, concurrency>>

\* spoonacular.ts lines 60-62, 114-116: !response.ok throws; the handlers'
\* catch blocks turn it into 429 or 500
ApiFail(p, status) ==
    /\ req[p].pc \in {"week1", "week2", "search"}
    /\ req' = [req EXCEPT ![p] = Caught(req[p], ApiError(status))]
    /\ UNCHANGED <<prefsTable, membersTable, plansTable, now, rng, concurrency>>

\* PutDone with a ConditionExpression on the snapshot: the put of an item
\* built from a plan that is no longer the stored one is rejected
PutDoneIfUnchanged(p) ==
    /\ req[p].pc = "put"
    /\ LET item == req[p].l.item
           key == <<item.PK, item.SK>>
           stale == /\ Has(req[p].l, "plan")
                    /\ (key \notin DOMAIN plansTable \/ plansTable[key] # req[p].l.plan)
       IN  IF stale
           THEN /\ plansTable' = plansTable
                /\ req' = [req EXCEPT ![p] = Respond(req[p], 409, "Conflict")]
           ELSE /\ plansTable' = PutItem(plansTable, item)
                /\ req' = [req EXCEPT ![p] =
                              [Respond(req[p], 200, "ok") EXCEPT !.puts = req[p].puts + 1]]
    /\ UNCHANGED <<prefsTable, membersTable, now, rng, concurrency>>

\* the PutCommand of either handler takes effect and the handler returns 200
PutDone(p) ==
    /\ req[p].pc = "put"
    /\ plansTable' = PutItem(plansTable, req[p].l.item)
    /\ req' = [req EXCEPT ![p] =
                  [Respond(req[p], 200, "ok") EXCEPT !.puts = req[p].puts + 1]]
    /\ UNCHANGED <<prefsTable, membersTable, now, rng, concurrency>>

----------------------------------------------------------------------------
(* updateMeal.ts *)

\* PK=USER#u, SK=PROFILE
UserProfile(userId) ==
    [householdId |-> HouseholdOf(userId),
     dietaryRestrictions |-> <<"gluten-free">>,
     allergies |-> <<"shellfish">>]

\* lines 45-49; 0 stands for findIndex's -1
RECURSIVE findIndexFrom(_, _, _, _, _)

\* findIndexFrom without the member test of line 48
findIndexFromAnyScope(meals, i, date, mealType, forMemberId) ==
    IF i > Len(meals) THEN 0
    ELSE IF meals[i].date = date /\ meals[i].mealType = mealType
         THEN i
         ELSE findIndexFrom(meals, i + 1, date, mealType, forMemberId)

findIndexFrom(meals, i, date, mealType, forMemberId) ==
    IF i > Len(meals) THEN 0
    ELSE IF /\ meals[i].date = date
            /\ meals[i].mealType = mealType
            /\ (IF forMemberId # Null
                THEN Has(meals[i], "forMemberId") /\ meals[i].forMemberId = forMemberId[1]
                ELSE ~Has(meals[i], "forMemberId"))
         THEN i
         ELSE findIndexFrom(meals, i + 1, date, mealType, forMemberId)

\* UpdatedItem pushing the new meal instead of replacing the old one
UpdatedItemPush(plan, mealIndex, updatedMeal, userId, clock) ==
    Spread(plan,
           [meals |-> Append(plan.meals, updatedMeal),
            lastUpdated |-> clock,
            lastUpdatedBy |-> userId])

\* UpdatedItem inserting the new meal in front of the old one
UpdatedItemInsert(plan, mealIndex, updatedMeal, userId, clock) ==
    Spread(plan,
           [meals |-> SubSeq(plan.meals, 1, mealIndex - 1) \o <<updatedMeal>>
                      \o SubSeq(plan.meals, mealIndex, Len(plan.meals)),
            lastUpdated |-> clock,
            lastUpdatedBy |-> userId])

\* lines 228-240: meals[mealIndex] = updatedMeal, then the Item of the put
UpdatedItem(plan, mealIndex, updatedMeal, userId, clock) ==
    Spread(plan,
           [meals |-> [plan.meals EXCEPT ![mealIndex] = updatedMeal],
            lastUpdated |-> clock,
            lastUpdatedBy |-> userId])

\* UserOverride without the servings: null of lines 66 and 117
UserOverrideKeepServings(recipeId, name, userId, clock) ==
    [recipeId |-> recipeId,
     recipeName |-> name,
     recipeImage |-> Null, readyInMinutes |-> Null,
     sourceUrl |-> Null,
     source |-> "user_preference", isUserMeal |-> TRUE,
     updatedAt |-> clock, updatedBy |-> userId]

\* the fields every branch of updateMeal overrides with a list item or a
\* custom name
UserOverride(recipeId, name, userId, clock) ==
    [recipeId |-> recipeId,
     recipeName |-> name,
     recipeImage |-> Null, readyInMinutes |-> Null,
     servings |-> Null, sourceUrl |-> Null,
     source |-> "user_preference", isUserMeal |-> TRUE,
     updatedAt |-> clock, updatedBy |-> userId]

\* lines 212-224
RecipeOverride(newRecipe, userId, clock) ==
    [recipeId |-> ToString(newRecipe.id),
     recipeName |-> newRecipe.title,
     recipeImage |-> Some(IF Has(newRecipe, "image") THEN newRecipe.image
                          ELSE "https://spoonacular.com/recipeImages/"
                               \o ToString(newRecipe.id) \o "-312x231.jpg"),
     readyInMinutes |-> Some(newRecipe.readyInMinutes),
     servings |-> Some(newRecipe.servings),
     sourceUrl |-> Some(newRecipe.sourceUrl),
     source |-> "ai_suggest", isUserMeal |-> FALSE,
     updatedAt |-> clock, updatedBy |-> userId]

\* array.filter(m => m !== current)
RECURSIVE FilterOut(_, _)
FilterOut(arr, current) ==
    IF arr = <<>> THEN <<>>
    ELSE IF Head(arr) # current
         THEN <<Head(arr)>> \o FilterOut(Tail(arr), current)
         ELSE FilterOut(Tail(arr), current)

\* results.filter(r => r.id.toString() !== currentMeal.recipeId)
RECURSIVE FilterRecipes(_, _)
FilterRecipes(results, recipeId) ==
    IF results = <<>> THEN <<>>
    ELSE IF ToString(Head(results).id) # recipeId
         THEN <<Head(results)>> \o FilterRecipes(Tail(results), recipeId)
         ELSE FilterRecipes(Tail(results), recipeId)

\* updateMeal.ts lines 4-72: validation, the plan load, the slot lookup and
\* the custom branch
UpdateMealStart(p, userId, startDate, date, mealType, action, customMealName, forMemberId) ==
    /\ CanStart(p)
    /\ now < MaxClock
    /\ now' = now + 1
    /\ LET householdId == HouseholdOf(userId)
           key == PlanKey(householdId, startDate)
           body == [startDate |-> startDate, date |-> date,
                    mealType |-> mealType, action |-> action,
                    customMealName |-> customMealName,
                    forMemberId |-> forMemberId]
           r == [Idle EXCEPT !.op = "updateMeal", !.l = body] @@
                [userId |-> userId, householdId |-> householdId]
           plan == plansTable[key]
           mealIndex == findIndexFrom(plan.meals, 1, date, mealType, forMemberId)
           currentMeal == plan.meals[mealIndex]
           u == Spread(body, [plan |-> plan, mealIndex |-> mealIndex])
           updatedMeal == Spread(currentMeal,
                                 UserOverride("custom-" \o ToString(now'),
                                              customMealName, userId, now'))
       IN  req' = [req EXCEPT ![p] =
              IF action \notin {"swap", "custom"}
              THEN Respond(r, 400, "action must be swap or custom")
              ELSE IF action = "custom" /\ customMealName = ""
              THEN Respond(r, 400, "customMealName is required for custom action")
              ELSE IF key \notin DOMAIN plansTable
              THEN Respond(r, 404, "Meal plan not found")
              ELSE IF mealIndex = 0
              THEN Respond(r, 404, "Meal not found in plan")
              ELSE IF action = "custom"
              THEN SendPut(r, Spread(u, [updatedMeal |-> updatedMeal]),
                           UpdatedItem(plan, mealIndex, updatedMeal, userId, now'))
              ELSE [r EXCEPT !.pc = "prefs", !.l = u]]
    /\ UNCHANGED <<prefsTable, membersTable, plansTable, rng, concurrency>>

\* UpdateMealPrefs taking the mode recorded on the plan for the current one
UpdateMealPrefsRecordedMode(p) ==
    /\ req[p].pc = "prefs"
    /\ LET r == req[p]
           u == r.l
           preferences == prefsTable[r.householdId]
           mealSuggestionMode == u.plan.mealSuggestionMode
           currentMeal == u.plan.meals[u.mealIndex]
           userMeals ==
               IF u.mealType = "breakfast" THEN GetOr(preferences, "typicalBreakfast", <<>>)
               ELSE IF u.mealType = "lunch" THEN GetOr(preferences, "typicalLunch", <<>>)
               ELSE IF u.mealType = "dinner" THEN GetOr(preferences, "typicalDinner", <<>>)
               ELSE <<>>
           alternatives == FilterOut(userMeals, currentMeal.recipeName)
           newMealName == pickRandom(alternatives, Draw(rng, 0))
           updatedMeal ==
               Spread(currentMeal,
                      UserOverride("user-" \o Slug(newMealName) \o "-" \o ToString(now),
                                   newMealName, r.userId, now))
           familyMembers == membersTable[r.householdId]
           chosen == IF u.forMemberId # Null
                     THEN SelectSeq(familyMembers, LAMBDA m : m.id = u.forMemberId[1])
                     ELSE FilterMembers(familyMembers, TRUE)
                          \o <<UserProfile(r.userId)>>
           diet == mapDietaryRestrictions(Aggregate(<<>>, chosen, "dietaryRestrictions"))
           excludeIngredients ==
               OrUndefined(mapAllergiesToExclude(Aggregate(<<>>, chosen, "allergies")))
           offset == (Draw(rng, 0) * 50) \div RandDen
           call == [api |-> "searchRecipes",
                    query |-> IF u.mealType = "breakfast" THEN "breakfast"
                              ELSE IF u.mealType = "lunch" THEN "lunch" ELSE "dinner",
                    diet |-> diet, excludeIngredients |-> excludeIngredients,
                    number |-> 5, offset |-> offset]
       IN  req' = [req EXCEPT ![p] =
              IF mealSuggestionMode = "user_preference"
              THEN IF Len(alternatives) = 0
                   THEN Respond(r, 404, "No other options in your preferences")
                   ELSE SendPut(r, Spread(u, [updatedMeal |-> updatedMeal,
                                              mode |-> mealSuggestionMode]),
                                UpdatedItem(u.plan, u.mealIndex, updatedMeal, r.userId, now))
              ELSE [r EXCEPT !.pc = "search",
                             !.l = Spread(u, [mode |-> mealSuggestionMode]),
                             !.calls = <<call>>]]
    /\ rng' = IF req'[p].pc = "idle" THEN rng ELSE (rng + 1) % RandDen
    /\ UNCHANGED <<prefsTable, membersTable, plansTable, now, concurrency>>

\* lines 74-195: the preferences read resolves; user_preference mode picks
\* from the recurring list, any other mode aggregates and issues the search
UpdateMealPrefs(p) ==
    /\ req[p].pc = "prefs"
    /\ LET r == req[p]
           u == r.l
           preferences == prefsTable[r.householdId]
           mealSuggestionMode == GetOr(preferences, "mealSuggestionMode", "ai_and_user")
           currentMeal == u.plan.meals[u.mealIndex]
           userMeals ==
               IF u.mealType = "breakfast" THEN GetOr(preferences, "typicalBreakfast", <<>>)
               ELSE IF u.mealType = "lunch" THEN GetOr(preferences, "typicalLunch", <<>>)
               ELSE IF u.mealType = "dinner" THEN GetOr(preferences, "typicalDinner", <<>>)
               ELSE <<>>
           alternatives == FilterOut(userMeals, currentMeal.recipeName)
           newMealName == pickRandom(alternatives, Draw(rng, 0))
           updatedMeal ==
               Spread(currentMeal,
                      UserOverride("user-" \o Slug(newMealName) \o "-" \o ToString(now),
                                   newMealName, r.userId, now))
           familyMembers == membersTable[r.householdId]
           chosen == IF u.forMemberId # Null
                     THEN SelectSeq(familyMembers, LAMBDA m : m.id = u.forMemberId[1])
                     ELSE FilterMembers(familyMembers, TRUE)
                          \o <<UserProfile(r.userId)>>
           diet == mapDietaryRestrictions(Aggregate(<<>>, chosen, "dietaryRestrictions"))
           excludeIngredients ==
               OrUndefined(mapAllergiesToExclude(Aggregate(<<>>, chosen, "allergies")))
           offset == (Draw(rng, 0) * 50) \div RandDen
           call == [api |-> "searchRecipes",
                    query |-> IF u.mealType = "breakfast" THEN "breakfast"
                              ELSE IF u.mealType = "lunch" THEN "lunch" ELSE "dinner",
                    diet |-> diet, excludeIngredients |-> excludeIngredients,
                    number |-> 5, offset |-> offset]
       IN  req' = [req EXCEPT ![p] =
              IF mealSuggestionMode = "user_preference"
              THEN IF Len(alternatives) = 0
                   THEN Respond(r, 404, "No other options in your preferences")
                   ELSE SendPut(r, Spread(u, [updatedMeal |-> updatedMeal,
                                              mode |-> mealSuggestionMode]),
                                UpdatedItem(u.plan, u.mealIndex, updatedMeal, r.userId, now))
              ELSE [r EXCEPT !.pc = "search",
                             !.l = Spread(u, [mode |-> mealSuggestionMode]),
                             !.calls = <<call>>]]
    /\ rng' = IF req'[p].pc = "idle" THEN rng ELSE (rng + 1) % RandDen
    /\ UNCHANGED <<prefsTable, membersTable, plansTable, now, concurrency>>

\* lines 197-240: the search resolves
SearchReply(p, results) ==
    /\ req[p].pc = "search"
    /\ LET r == req[p]
           u == r.l
           currentMeal == u.plan.meals[u.mealIndex]
           alternatives == FilterRecipes(results, currentMeal.recipeId)
           newRecipe == pickRandom(alternatives, Draw(rng, 0))
           updatedMeal == Spread(currentMeal, RecipeOverride(newRecipe, r.userId, now))
       IN  req' = [req EXCEPT ![p] =
              IF Len(results) = 0
              THEN Respond(r, 404, "No alternative recipes found")
              ELSE IF Len(alternatives) = 0
              THEN Respond(r, 404, "No different recipes available")
              ELSE SendPut(r, Spread(u, [updatedMeal |-> updatedMeal]),
                           UpdatedItem(u.plan, u.mealIndex, updatedMeal, r.userId, now))]
    /\ rng' = IF req'[p].pc = "idle" THEN rng ELSE (rng + 1) % RandDen
    /\ UNCHANGED <<prefsTable, membersTable, plansTable, now, concurrency>>

----------------------------------------------------------------------------
(* users/updatePreferences.ts *)

\* lines 38-56: body.x ?? existing.x ?? default, for the properties the meal
\* handlers read; body is a record holding the properties present in the request
UpdatePreferences(userId, body) ==
    /\ now < MaxClock
    /\ now' = now + 1
    /\ LET householdId == HouseholdOf(userId)
           existing == prefsTable[householdId]
           pick(k, dflt) == IF Has(body, k) THEN body[k] ELSE GetOr(existing, k, dflt)
       IN  prefsTable' = [prefsTable EXCEPT ![householdId] =
               [mealsToInclude |-> pick("mealsToInclude", MealTypes),
                typicalBreakfast |-> pick("typicalBreakfast", <<>>),
                typicalLunch |-> pick("typicalLunch", <<>>),
                typicalDinner |-> pick("typicalDinner", <<>>),
                typicalSnacks |-> pick("typicalSnacks", <<>>),
                mealSuggestionMode |-> pick("mealSuggestionMode", "ai_and_user"),
                updatedBy |-> userId,
                updatedAt |-> now']]
    /\ UNCHANGED <<membersTable, plansTable, req, rng, concurrency>>

----------------------------------------------------------------------------
(* The system *)

Households == {"hA"}

\* a PREFERENCES item as updatePreferences writes it
PrefsItem(mode, lists) ==
    Spread(lists, [mealsToInclude |-> MealTypes, mealSuggestionMode |-> mode])

InitialPrefs ==
    {<<>>} \cup
    { PrefsItem(m, l) : m \in Modes, l \in ListConfigs }

\* the plans a household may hold when a behaviour starts: none, or the plan
\* an earlier generate for 2025-01-06 wrote under the given preferences and
\* family
InitialPlans(preferences, familyMembers, seed) ==
    LET g0 == GenerateLocals(preferences, familyMembers, <<2025, 1, 6>>, seed, 0)
        ai == callsSpoonacular(g0.mealSuggestionMode)
        g == [g0 EXCEPT !.aiPlan = IF ai THEN Some(Week(100, "full")) ELSE Null,
                        !.kidAiPlan = IF ai /\ Len(g0.kids) > 0
                                      THEN Some(Week(200, "sparse")) ELSE Null]
        item == GeneratedItem(g, "u1", "hA", 0)
    IN  IF g.mealSuggestionMode = "user_preference" /\ ~hasAnyTypicalMeals(g.lists)
        THEN {<<>>}
        ELSE {<<>>, PutItem(<<>>, item)}

\* the tables and the generator when a behaviour starts
InitialStates ==
    UNION { { [preferences |-> w[1], familyMembers |-> w[2], rng |-> w[3],
               plans |-> plans] : plans \in InitialPlans(w[1], w[2], w[3]) } :
            w \in InitialPrefs \X Families \X (0..MaxSeed) }

SwapTargets(startDate) == { SetDate(startDate, 0), SetDate(startDate, 1) }

Init ==
    /\ \E w \in InitialStates :
          /\ prefsTable = [h \in Households |-> w.preferences]
          /\ membersTable = [h \in Households |-> w.familyMembers]
          /\ rng = w.rng
          /\ plansTable = w.plans
    /\ now = 0
    /\ req = [p \in Procs |-> Idle]
    /\ concurrency = 1

Next ==
    \/ \E p \in Procs, u \in Users, sd \in StartDates : GenerateStart(p, u, sd)
    \/ \E p \in Procs, reply \in WeekReplies : Week1Reply(p, reply)
    \/ \E p \in Procs, reply \in WeekReplies : Week2Reply(p, reply)
    \/ \E p \in Procs, status \in FailStatus : ApiFail(p, status)
    \/ \E p \in Procs : PutDone(p)
    \/ \E p \in Procs, u \in Users, sd \in StartDates, mt \in Range(MealTypes),
          action \in {"swap", "custom"}, fm \in {Null, Some("jake")} :
          \E date \in SwapTargets(sd) :
             UpdateMealStart(p, u, sd, date, mt, action, "tacos", fm)
    \/ \E p \in Procs : UpdateMealPrefs(p)
    \/ \E p \in Procs, results \in SearchReplies : SearchReply(p, results)
    \/ \E u \in Users, m \in Modes :
          UpdatePreferences(u, [mealSuggestionMode |-> m])
    \/ \E u \in Users, lists \in ListConfigs : UpdatePreferences(u, lists)

Spec == Init /\ [][Next]_vars

----------------------------------------------------------------------------
(* Households that differ in their members' dietary restrictions, each      *)
(* asking for plans only                                                    *)

\* member.dietaryRestrictions as stored: free text, in the order entered
RestrictionLists ==
    { <<>>, <<"halal">>, <<"vegetarian">>, <<"vegan", "vegetarian">>,
      <<"vegetarian", "vegan">>, <<"halal", "Keto">> }

Adult(restrictions) ==
    [id |-> "ann", name |-> "Ann",
     dietaryRestrictions |-> restrictions, allergies |-> <<"nuts">>]

Kid(id, name, restrictions) ==
    [id |-> id, name |-> name, sameAsAdults |-> FALSE,
     dietaryRestrictions |-> restrictions, allergies |-> <<>>]

DietFamilies ==
    { <<Adult(a)>> : a \in RestrictionLists }
    \cup { <<Adult(a), Kid("jake", "Jake", b)>> :
              a \in RestrictionLists, b \in RestrictionLists }
    \cup { <<Adult(<<>>), Kid("jake", "Jake", b), Kid("mia", "Mia", c)>> :
              b \in RestrictionLists, c \in RestrictionLists }

InitFamilies ==
    /\ prefsTable \in [Households -> { PrefsItem(m, ListsA) : m \in Modes }]
    /\ membersTable \in [Households -> DietFamilies]
    /\ plansTable = <<>>
    /\ rng = 0
    /\ now = 0
    /\ req = [p \in Procs |-> Idle]
    /\ concurrency = 1

NextGenerate ==
    \/ \E p \in Procs, u \in Users : GenerateStart(p, u, <<2025, 1, 6>>)
    \/ \E p \in Procs, reply \in WeekReplies : Week1Reply(p, reply)
    \/ \E p \in Procs, reply \in WeekReplies : Week2Reply(p, reply)
    \/ \E p \in Procs, status \in FailStatus : ApiFail(p, status)
    \/ \E p \in Procs : PutDone(p)

SpecFamilies == InitFamilies /\ [][NextGenerate]_vars

----------------------------------------------------------------------------
(* One household under every request body the handlers accept or reject,    *)
(* with a plan store that may fail                                          *)

\* err.message of a rejected PutCommand
StoreError == "The level of configured provisioned throughput for the table was exceeded"

\* the PutCommand of either handler rejects; the catch block answers
PutFail(p) ==
    /\ req[p].pc = "put"
    /\ req' = [req EXCEPT ![p] = Caught(req[p], StoreError)]
    /\ UNCHANGED <<prefsTable, membersTable, plansTable, now, rng, concurrency>>

\* body.startDate of generatePlan: absent, a date, "2025-13-01", "2025-02-30"
StartDateInputs == { Null, <<2025, 1, 6>>, <<2025, 13, 1>>, <<2025, 2, 30>> }

\* body.customMealName; "" stands for an empty or absent name, both falsy
NameInputs == { "tacos", "" }

\* body.forMemberId: absent, a separate member, no member of the household
MemberInputs == { Null, Some("jake"), Some("zoe") }

InitialRequestStates ==
    { w \in InitialStates :
         /\ w.preferences \in { PrefsItem(m, ListsA) : m \in Modes }
         /\ w.familyMembers = <<Ann, Mia, Jake>>
         /\ w.rng = 0 }

InitRequests ==
    /\ \E w \in InitialRequestStates :
          /\ prefsTable = [h \in Households |-> w.preferences]
          /\ membersTable = [h \in Households |-> w.familyMembers]
          /\ rng = w.rng
          /\ plansTable = w.plans
    /\ now = 0
    /\ req = [p \in Procs |-> Idle]
    /\ concurrency = 1

NextRequests ==
    \/ \E p \in Procs, u \in Users, sd \in StartDateInputs : GenerateStart(p, u, sd)
    \/ \E p \in Procs, reply \in WeekReplies : Week1Reply(p, reply)
    \/ \E p \in Procs, reply \in WeekReplies : Week2Reply(p, reply)
    \/ \E p \in Procs, status \in FailStatus : ApiFail(p, status)
    \/ \E p \in Procs : PutDone(p)
    \/ \E p \in Procs : PutFail(p)
    \/ \E p \in Procs, u \in Users, sd \in StartDates, mt \in Range(MealTypes),
          action \in {"swap", "custom"}, name \in NameInputs, fm \in MemberInputs :
          \E date \in SwapTargets(sd) :
             UpdateMealStart(p, u, sd, date, mt, action, name, fm)
    \/ \E p \in Procs : UpdateMealPrefs(p)
    \/ \E p \in Procs, results \in SearchReplies : SearchReply(p, results)
    \/ \E u \in Users, m \in Modes :
          UpdatePreferences(u, [mealSuggestionMode |-> m])

SpecRequests == InitRequests /\ [][NextRequests]_vars

----------------------------------------------------------------------------
(* Households that have disabled some meal types, each asking for plans only *)

\* preferences.mealsToInclude as updatePreferences stores it: its default, the
\* onboarding page's default, and a single type
EnabledInputs ==
    { MealTypes, <<"breakfast", "lunch", "dinner">>, <<"dinner">> }

InitEnabled ==
    /\ prefsTable \in [Households ->
           { Spread(PrefsItem(m, ListsA), [mealsToInclude |-> e]) :
                m \in Modes, e \in EnabledInputs }]
    /\ membersTable \in [Households -> Families]
    /\ plansTable = <<>>
    /\ rng = 0
    /\ now = 0
    /\ req = [p \in Procs |-> Idle]
    /\ concurrency = 1

SpecEnabled == InitEnabled /\ [][NextGenerate]_vars

----------------------------------------------------------------------------
(* Two execution environments: requests of one household overlap            *)

InitConcurrent ==
    /\ \E w \in InitialRequestStates :
          /\ w.plans # <<>>
          /\ prefsTable = [h \in Households |-> w.preferences]
          /\ membersTable = [h \in Households |-> w.familyMembers]
          /\ rng = w.rng
          /\ plansTable = w.plans
    /\ now = 0
    /\ req = [p \in Procs |-> Idle]
    /\ concurrency = Cardinality(Procs)

NextConcurrent ==
    \/ \E p \in Procs, u \in Users : GenerateStart(p, u, <<2025, 1, 6>>)
    \/ \E p \in Procs, reply \in WeekReplies : Week1Reply(p, reply)
    \/ \E p \in Procs, reply \in WeekReplies : Week2Reply(p, reply)
    \/ \E p \in Procs, status \in FailStatus : ApiFail(p, status)
    \/ \E p \in Procs : PutDone(p)
    \/ \E p \in Procs, u \in Users, mt \in {"breakfast", "dinner"},
          action \in {"swap", "custom"}, fm \in {Null, Some("jake")} :
          UpdateMealStart(p, u, <<2025, 1, 6>>, <<2025, 1, 6>>, mt, action, "tacos", fm)
    \/ \E p \in Procs : UpdateMealPrefs(p)
    \/ \E p \in Procs, results \in SearchReplies : SearchReply(p, results)

SpecConcurrent == InitConcurrent /\ [][NextConcurrent]_vars

----------------------------------------------------------------------------
(* meals/getPlan.ts, and two households side by side                        *)

\* SK strings "PLAN#YYYY-MM-DD" in ascending order
DateBefore(a, b) ==
    \/ a[1] < b[1]
    \/ a[1] = b[1] /\ a[2] < b[2]
    \/ a[1] = b[1] /\ a[2] = b[2] /\ a[3] < b[3]

\* getPlan.ts lines 30-38, 57-65: the properties of the item the response holds
PlanView(item) ==
    [startDate |-> item.startDate,
     endDate |-> item.endDate,
     meals |-> item.meals,
     generatedAt |-> item.generatedAt,
     mealSuggestionMode |-> item.mealSuggestionMode]

\* QueryMostRecent with no partition key in the condition
QueryMostRecentOfAll(table, pk) ==
    LET ks == { k \in DOMAIN table : k[2][1] = "PLAN#" }
    IN  IF ks = {} THEN <<>>
        ELSE <<table[CHOOSE k \in ks : \A j \in ks : ~DateBefore(k[2][2], j[2][2])]>>

\* lines 42-55: PK = :pk AND begins_with(SK, 'PLAN#'), descending, Limit 1
QueryMostRecent(table, pk) ==
    LET ks == { k \in DOMAIN table : k[1] = pk /\ k[2][1] = "PLAN#" }
    IN  IF ks = {} THEN <<>>
        ELSE <<table[CHOOSE k \in ks : \A j \in ks : ~DateBefore(k[2][2], j[2][2])]>>

\* getPlan.ts lines 4-66; startDate is Null when the query string has none.
\* Every user here has a household, so the catch of lines 12-14 is not taken.
GetPlan(p, userId, startDate) ==
    /\ CanStart(p)
    /\ now < MaxClock
    /\ now' = now + 1
    /\ LET householdId == HouseholdOf(userId)
           key == PlanKey(householdId, startDate[1])
           found == IF startDate # Null
                    THEN (IF key \in DOMAIN plansTable THEN <<plansTable[key]>> ELSE <<>>)
                    ELSE QueryMostRecent(plansTable, PK(householdId))
           body == [plan |-> IF found = <<>> THEN Null ELSE Some(PlanView(found[1]))]
           r == [Idle EXCEPT !.op = "getPlan",
                             !.l = [startDate |-> startDate, body |-> body]] @@
                [userId |-> userId, householdId |-> householdId]
       IN  req' = [req EXCEPT ![p] = Respond(r, 200, "ok")]
    /\ UNCHANGED <<prefsTable, membersTable, plansTable, rng, concurrency>>

Residents == {"u1", "u2"}

BothHouseholds == { HouseholdOf(u) : u \in Residents }

\* the item an earlier generate of the user for 2025-01-06 has stored
PlanAtStart(preferences, familyMembers, userId, seed) ==
    LET g0 == GenerateLocals(preferences, familyMembers, <<2025, 1, 6>>, seed, 0)
        ai == callsSpoonacular(g0.mealSuggestionMode)
        g == [g0 EXCEPT !.aiPlan = IF ai THEN Some(Week(100, "full")) ELSE Null,
                        !.kidAiPlan = IF ai /\ Len(g0.kids) > 0
                                      THEN Some(Week(200, "sparse")) ELSE Null]
    IN  GeneratedItem(g, userId, HouseholdOf(userId), 0)

FamilyOf(h) == IF h = "hA" THEN <<Ann>> ELSE <<Ann, Mia, Jake>>

\* two households, each with its preferences and members, each with or
\* without a stored plan
InitialHouseholdStates ==
    { [preferences |-> prefs,
       plans |-> [k \in { PlanKey(HouseholdOf(u), <<2025, 1, 6>>) : u \in holders } |->
                    LET u == CHOOSE v \in holders : PlanKey(HouseholdOf(v), <<2025, 1, 6>>) = k
                    IN  PlanAtStart(prefs[HouseholdOf(u)], FamilyOf(HouseholdOf(u)), u, 0)]] :
      prefs \in [BothHouseholds -> { PrefsItem(m, ListsA) : m \in {"ai_suggest", "user_preference"} }],
      holders \in SUBSET Residents }

InitHouseholds ==
    /\ \E w \in InitialHouseholdStates :
          /\ prefsTable = w.preferences
          /\ plansTable = w.plans
    /\ membersTable = [h \in BothHouseholds |-> FamilyOf(h)]
    /\ rng = 0
    /\ now = 0
    /\ req = [p \in Procs |-> Idle]
    /\ concurrency = 1

NextHouseholds ==
    \/ \E p \in Procs, u \in Residents, sd \in {<<2025, 1, 6>>, <<2025, 1, 13>>} :
          GenerateStart(p, u, sd)
    \/ \E p \in Procs, reply \in WeekReplies : Week1Reply(p, reply)
    \/ \E p \in Procs, reply \in WeekReplies : Week2Reply(p, reply)
    \/ \E p \in Procs, status \in FailStatus : ApiFail(p, status)
    \/ \E p \in Procs : PutDone(p)
    \/ \E p \in Procs, u \in Residents, mt \in {"breakfast", "dinner"},
          action \in {"swap", "custom"}, fm \in {Null, Some("jake")} :
          UpdateMealStart(p, u, <<2025, 1, 6>>, <<2025, 1, 6>>, mt, action, "tacos", fm)
    \/ \E p \in Procs : UpdateMealPrefs(p)
    \/ \E p \in Procs, results \in SearchReplies : SearchReply(p, results)
    \/ \E p \in Procs, u \in Residents, sd \in {Null, Some(<<2025, 1, 6>>), Some(<<2025, 1, 13>>)} :
          GetPlan(p, u, sd)

SpecHouseholds == InitHouseholds /\ [][NextHouseholds]_vars

----------------------------------------------------------------------------
(* Properties *)

\* the step in which the put of request p takes effect
PutStep(p) == req[p].pc = "put" /\ req'[p].pc = "idle"

\* the service calls a generate request has to have made before it may write
CallsNeeded(g) ==
    IF callsSpoonacular(g.mealSuggestionMode)
    THEN (IF Len(g.kids) > 0 THEN <<g.adultCall, g.kidCall>> ELSE <<g.adultCall>>)
    ELSE <<>>

\* a generate request that has issued its put did so after all its calls
\* were answered, and it issues one put only
C1_WritesLast(r) ==
    (r.op = "generate" /\ (r.pc = "put" \/ r.puts > 0)) =>
        /\ r.puts + (IF r.pc = "put" THEN 1 ELSE 0) = 1
        /\ r.calls = CallsNeeded(r.l)
        /\ callsSpoonacular(r.l.mealSuggestionMode) => r.l.aiPlan # Null
        /\ (callsSpoonacular(r.l.mealSuggestionMode) /\ Len(r.l.kids) > 0)
              => r.l.kidAiPlan # Null

\* a generate request that ended in an error has written nothing
C1_FailedWritesNothing(r) ==
    (r.op = "generate" /\ r.pc = "idle" /\ r.status # 200) => r.puts = 0

\* C1: generation is atomic with respect to the plan store.  The store
\* changes only in the step in which a request's single put takes effect, and
\* then by exactly the one item of that put; a generate request issues that
\* put only after every suggestion call it needs was answered, and the item
\* holds every slot built from those answers; a generate request that failed
\* has written nothing.  So in every state the store holds the plans stored
\* before or a completely built plan, and a failed generate leaves it as it was.
C1_GenerateAtomic ==
    [][ /\ plansTable' # plansTable =>
              \E p \in Procs :
                 /\ PutStep(p)
                 /\ req'[p].status = 200
                 /\ plansTable' = PutItem(plansTable, req[p].l.item)
                 /\ \A k \in DOMAIN plansTable :
                       k # <<req[p].l.item.PK, req[p].l.item.SK>>
                          => plansTable'[k] = plansTable[k]
                 /\ req[p].op = "generate" =>
                       req[p].l.item.meals = CleanAll(BuildMeals(req[p].l))
        /\ \A p \in Procs :
              /\ C1_WritesLast(req'[p])
              /\ C1_FailedWritesNothing(req'[p])
      ]_vars

\* a generate for a family with a separate-meal member has written its plan
\* after two answered calls
C1_Witness ==
    \E p \in Procs :
       /\ req[p].op = "generate" /\ req[p].status = 200 /\ req[p].puts = 1
       /\ Len(req[p].calls) = 2
       /\ <<req[p].l.item.PK, req[p].l.item.SK>> \in DOMAIN plansTable

\* member scope of a slot: the member id and the member names, or their absence
MemberScope(m) ==
    <<IF Has(m, "forMemberId") THEN Some(m.forMemberId) ELSE Null,
      IF Has(m, "forMembers") THEN Some(m.forMembers) ELSE Null>>

\* C2: a successful swap or custom replacement changes exactly one slot of
\* the plan it loaded: the written plan has the same number and order of
\* slots, every slot but the addressed one is identical, the replaced slot
\* keeps date, mealType and member scope, and startDate, endDate, recorded
\* mode, generatedAt and ttl of the plan are unchanged.
C2_OneSlotChanged ==
    [][ \A p \in Procs :
          (PutStep(p) /\ req[p].op = "updateMeal" /\ req'[p].status = 200) =>
             LET u == req[p].l
                 old == u.plan
                 new == plansTable'[<<old.PK, old.SK>>]
                 k == u.mealIndex
             IN  /\ Len(new.meals) = Len(old.meals)
                 /\ \A i \in 1..Len(old.meals) :
                       i # k => new.meals[i] = old.meals[i]
                 /\ new.meals[k] # old.meals[k]
                 /\ old.meals[k].date = u.date
                 /\ old.meals[k].mealType = u.mealType
                 /\ new.meals[k].date = old.meals[k].date
                 /\ new.meals[k].mealType = old.meals[k].mealType
                 /\ MemberScope(new.meals[k]) = MemberScope(old.meals[k])
                 /\ MemberScope(new.meals[k])[1] = u.forMemberId
                 /\ new.startDate = old.startDate
                 /\ new.endDate = old.endDate
                 /\ new.mealSuggestionMode = old.mealSuggestionMode
                 /\ new.generatedAt = old.generatedAt
                 /\ new.ttl = old.ttl
      ]_vars

\* the swap of a member's slot has been written
C2_Witness ==
    \E p \in Procs :
       /\ req[p].op = "updateMeal" /\ req[p].status = 200 /\ req[p].puts = 1
       /\ req[p].l.action = "swap"
       /\ req[p].l.forMemberId # Null
       /\ plansTable[<<req[p].l.item.PK, req[p].l.item.SK>>] = req[p].l.item

\* the number of a calendar date, counting days of the Gregorian calendar
DaysBeforeMonth(y, m) ==
    <<0, 31, 59, 90, 120, 151, 181, 212, 243, 273, 304, 334>>[m]
    + (IF m > 2 /\ IsLeap(y) THEN 1 ELSE 0)

DaysBeforeYear(y) ==
    (365 * y) + ((y - 1) \div 4) - ((y - 1) \div 100) + ((y - 1) \div 400)

Ordinal(d) == DaysBeforeYear(d[1]) + DaysBeforeMonth(d[1], d[2]) + d[3]

IsCalendarDate(d) ==
    /\ d[1] >= 1
    /\ d[2] \in 1..12
    /\ d[3] \in 1..DaysInMonth(d[1], d[2])

\* C3: in every stored plan with a valid startDate, endDate is the calendar
\* date 6 days after startDate, and every slot's date is a calendar date in
\* [startDate, endDate]: the slot built for day number i (monday = 0) is
\* dated startDate + i.
C3_DatesInWeek ==
    \A k \in DOMAIN plansTable :
       LET plan == plansTable[k]
           first == Ordinal(plan.startDate)
       IN  IsCalendarDate(plan.startDate) =>
              /\ IsCalendarDate(plan.endDate)
              /\ Ordinal(plan.endDate) = first + 6
              /\ \A i \in 1..Len(plan.meals) :
                    /\ IsCalendarDate(plan.meals[i].date)
                    /\ Ordinal(plan.meals[i].date) \in first..(first + 6)
                    /\ Ordinal(plan.meals[i].date) =
                          first + DayIndex(plan.meals[i].day)

\* a plan that spans the turn of the year is stored and one of its slots
\* was replaced
C3_Witness ==
    \E k \in DOMAIN plansTable :
       /\ plansTable[k].startDate = <<2025, 12, 29>>
       /\ plansTable[k].endDate = <<2026, 1, 4>>
       /\ \E i \in 1..Len(plansTable[k].meals) :
             /\ plansTable[k].meals[i].date = <<2025, 12, 30>>
             /\ Has(plansTable[k].meals[i], "updatedAt")

\* the requests of generate that got past the precondition check
Generating == { p \in Procs : req[p].op = "generate" /\ req[p].l # <<>> }

\* C4: a generate that read mode user_preference calls the suggestion
\* service never, and every slot of the plan it builds, shared or for a
\* member, has source user_preference.
C4_UserOnlyNoService ==
    \A p \in Generating :
       req[p].l.mealSuggestionMode = "user_preference" =>
          /\ req[p].calls = <<>>
          /\ Has(req[p].l, "item") =>
                \A i \in 1..Len(req[p].l.item.meals) :
                   req[p].l.item.meals[i].source = "user_preference"

\* a user_preference plan with a member's slot in it has been written
C4_Witness ==
    \E p \in Generating :
       /\ req[p].l.mealSuggestionMode = "user_preference"
       /\ req[p].status = 200 /\ req[p].puts = 1
       /\ \E i \in 1..Len(req[p].l.item.meals) :
             Has(req[p].l.item.meals[i], "forMemberId")

\* the household's recurring list of a meal type
RecurringList(lists, mealType) ==
    CASE mealType = "breakfast" -> lists.typicalBreakfast
      [] mealType = "lunch" -> lists.typicalLunch
      [] mealType = "dinner" -> lists.typicalDinner
      [] mealType = "snacks" -> lists.typicalSnacks

\* the positions of the shared slots of a plan for day number i and a meal type
SharedSlots(item, i, mealType) ==
    { k \in 1..Len(item.meals) :
         /\ Ordinal(item.meals[k].date) = Ordinal(item.startDate) + i
         /\ item.meals[k].mealType = mealType
         /\ ~Has(item.meals[k], "forMemberId") }

\* C5: a plan generated in mode user_preference holds, for each of the 7
\* dates and each meal type, exactly one shared slot when the household's
\* recurring list of that type is non-empty, named after an item of that
\* list, and no shared slot when the list is empty.
C5_UserOnlySharedSlots ==
    \A p \in Generating :
       (req[p].l.mealSuggestionMode = "user_preference" /\ Has(req[p].l, "item")) =>
          \A i \in 0..6, mt \in Range(MealTypes) :
             LET slots == SharedSlots(req[p].l.item, i, mt)
                 list == RecurringList(req[p].l.lists, mt)
             IN  /\ Cardinality(slots) = IF Len(list) > 0 THEN 1 ELSE 0
                 /\ \A k \in slots :
                       req[p].l.item.meals[k].recipeName \in Range(list)

\* Example A has been generated: breakfast from {eggs, oatmeal} and dinner
\* pasta on the first day, no lunch, endDate 2025-01-12
C5_Witness ==
    \E p \in Generating :
       /\ req[p].l.mealSuggestionMode = "user_preference"
       /\ req[p].status = 200
       /\ req[p].l.lists = ListsA
       /\ req[p].l.item.startDate = <<2025, 1, 6>>
       /\ req[p].l.item.endDate = <<2025, 1, 12>>
       /\ SharedSlots(req[p].l.item, 0, "lunch") = {}
       /\ \E k \in SharedSlots(req[p].l.item, 0, "breakfast") :
             req[p].l.item.meals[k].recipeName \in {"eggs", "oatmeal"}
       /\ \E k \in SharedSlots(req[p].l.item, 6, "dinner") :
             req[p].l.item.meals[k].recipeName = "pasta"

\* nobody in the household has a recurring meal
NoRecurringMeals(preferences, familyMembers) ==
    /\ \A k \in {"typicalBreakfast", "typicalLunch", "typicalDinner", "typicalSnacks"} :
          GetOr(preferences, k, <<>>) = <<>>
    /\ \A i \in 1..Len(familyMembers) :
          Has(familyMembers[i], "mealPreferences") =>
             \A k \in DOMAIN familyMembers[i].mealPreferences :
                familyMembers[i].mealPreferences[k] = <<>>

\* the step in which process p receives a generate request
GenerateArrives(p) ==
    req[p].pc = "idle" /\ req'[p] # req[p] /\ req'[p].op = "generate"

\* C6: a generate arriving while the mode is user_preference and every
\* recurring list, of the household and of all members, is empty is answered
\* 400 "no typical meals saved" at once, without a call to the suggestion
\* service and without a write: the store is unchanged.
C6_NoMealsStateError ==
    [][ \A p \in Procs :
          ( /\ GenerateArrives(p)
            /\ GetOr(prefsTable[req'[p].householdId], "mealSuggestionMode",
                     "ai_and_user") = "user_preference"
            /\ NoRecurringMeals(prefsTable[req'[p].householdId],
                                membersTable[req'[p].householdId]) )
          => /\ req'[p].pc = "idle"
             /\ req'[p].status = 400
             /\ req'[p].message = "no typical meals saved"
             /\ req'[p].calls = <<>>
             /\ req'[p].puts = 0
             /\ plansTable' = plansTable
      ]_vars

\* such a generate was refused while an earlier plan is in the store
C6_Witness ==
    \E p \in Procs :
       /\ req[p].op = "generate" /\ req[p].status = 400
       /\ req[p].message = "no typical meals saved"
       /\ GetOr(prefsTable[req[p].householdId], "mealSuggestionMode",
                "ai_and_user") = "user_preference"
       /\ NoRecurringMeals(prefsTable[req[p].householdId],
                           membersTable[req[p].householdId])
       /\ DOMAIN plansTable # {}

\* C7: no stored plan holds a snacks slot with source ai_suggest, whatever
\* generate, swap and custom requests and whatever changes of mode led to it.
C7_NoSuggestedSnack ==
    \A k \in DOMAIN plansTable :
       \A i \in 1..Len(plansTable[k].meals) :
          plansTable[k].meals[i].mealType = "snacks"
             => plansTable[k].meals[i].source # "ai_suggest"

\* the positions of the slots, shared or not, of a plan for day number i and
\* a meal type
SlotsOf(item, i, mealType) ==
    { k \in 1..Len(item.meals) :
         /\ Ordinal(item.meals[k].date) = Ordinal(item.startDate) + i
         /\ item.meals[k].mealType = mealType }

\* C8: a plan generated in mode ai_suggest or ai_and_user holds for each date
\* a snacks slot iff the household's snack list is non-empty; that slot is
\* the only one of the date, is shared, has source user_preference and is
\* named after an item of the list: no snacks slot comes from a batch or
\* belongs to a member.
C8_SnacksFromListOnly ==
    \A p \in Generating :
       (callsSpoonacular(req[p].l.mealSuggestionMode) /\ Has(req[p].l, "item")) =>
          \A i \in 0..6 :
             LET item == req[p].l.item
                 slots == SlotsOf(item, i, "snacks")
                 list == req[p].l.lists.typicalSnacks
             IN  /\ Cardinality(slots) = IF Len(list) > 0 THEN 1 ELSE 0
                 /\ \A k \in slots :
                       /\ item.meals[k].source = "user_preference"
                       /\ ~Has(item.meals[k], "forMemberId")
                       /\ item.meals[k].recipeName \in Range(list)

\* an ai_suggest plan for a family with separate-meal members and a snack
\* list has been built
C8_Witness ==
    \E p \in Generating :
       /\ req[p].l.mealSuggestionMode = "ai_suggest"
       /\ Has(req[p].l, "item")
       /\ Len(req[p].l.kids) > 0
       /\ Cardinality(SlotsOf(req[p].l.item, 3, "snacks")) = 1

\* the batch entry for day number i and a meal type, if the batch has one
BatchEntry(plan, i, mealType) ==
    LET position == CASE mealType = "breakfast" -> 1
                      [] mealType = "lunch" -> 2
                      [] mealType = "dinner" -> 3
        returned == plan[1].week[Days[i + 1]].meals
    IN  IF position <= Len(returned) THEN Some(returned[position]) ELSE Null

\* C9: in a plan generated in mode ai_and_user, for every day number i in
\* 0..6 and every meal type but snacks, the shared slot has source
\* user_preference iff i is even and the household's list of the type is
\* non-empty; otherwise it has source ai_suggest and is the shared batch's
\* entry at that day and position when there is one, and there is no shared
\* slot when there is none.
C9_HybridAlternates ==
    \A p \in Generating :
       (req[p].l.mealSuggestionMode = "ai_and_user" /\ Has(req[p].l, "item")) =>
          \A i \in 0..6, mt \in {"breakfast", "lunch", "dinner"} :
             LET item == req[p].l.item
                 slots == SharedSlots(item, i, mt)
                 list == RecurringList(req[p].l.lists, mt)
                 entry == BatchEntry(req[p].l.aiPlan, i, mt)
             IN  IF i % 2 = 0 /\ Len(list) > 0
                 THEN /\ Cardinality(slots) = 1
                      /\ \A k \in slots :
                            /\ item.meals[k].source = "user_preference"
                            /\ item.meals[k].recipeName \in Range(list)
                 ELSE IF entry # Null
                 THEN /\ Cardinality(slots) = 1
                      /\ \A k \in slots :
                            /\ item.meals[k].source = "ai_suggest"
                            /\ item.meals[k].recipeId = ToString(entry[1].id)
                            /\ item.meals[k].recipeName = entry[1].title
                 ELSE slots = {}

\* an ai_and_user plan has been built from a batch with missing entries: a
\* dinner from the list on day 0, a breakfast from the batch on day 1 and no
\* lunch on days 1 and 2
C9_Witness ==
    \E p \in Generating :
       /\ req[p].l.mealSuggestionMode = "ai_and_user"
       /\ Has(req[p].l, "item")
       /\ req[p].l.aiPlan = Some(Week(200, "sparse"))
       /\ \E k \in SharedSlots(req[p].l.item, 0, "dinner") :
             req[p].l.item.meals[k].source = "user_preference"
       /\ \E k \in SharedSlots(req[p].l.item, 1, "breakfast") :
             req[p].l.item.meals[k].source = "ai_suggest"
       /\ SharedSlots(req[p].l.item, 1, "lunch") = {}
       /\ SharedSlots(req[p].l.item, 2, "lunch") = {}

\* the recipe metadata of a slot
RecipeMetadata == {"recipeImage", "readyInMinutes", "servings", "sourceUrl"}

Carries(meal, key) == Has(meal, key) /\ meal[key] # Null

\* C10: in every plan that a generate, swap or custom request builds, a slot
\* with source ai_suggest carries recipeImage, readyInMinutes, servings and
\* sourceUrl, and a slot with source user_preference carries none of them.
C10_MetadataBySource ==
    \A p \in Procs :
       (req[p].l # <<>> /\ Has(req[p].l, "item")) =>
          \A i \in 1..Len(req[p].l.item.meals) :
             LET meal == req[p].l.item.meals[i]
             IN  /\ meal.source = "ai_suggest" =>
                       \A key \in RecipeMetadata : Carries(meal, key)
                 /\ meal.source = "user_preference" =>
                       \A key \in RecipeMetadata : ~Carries(meal, key)

\* the restrictions the handlers aggregate for the shared meals and for the
\* separate meals of a household
RestrictionsOf(householdId, same) ==
    Aggregate(<<>>, FilterMembers(membersTable[householdId], same),
              "dietaryRestrictions")

\* the positions of the restrictions the service's taxonomy knows
Recognised(restrictions) ==
    { j \in 1..Len(restrictions) : Lower(restrictions[j]) \in DOMAIN dietMap }

DietPriority ==
    <<"vegetarian", "vegan", "gluten-free", "dairy-free", "keto", "paleo">>

\* the token of the recognised restriction that ranks highest
HighestRanked(restrictions) ==
    LET present == { i \in 1..Len(DietPriority) :
                       \E j \in 1..Len(restrictions) :
                          Lower(restrictions[j]) = DietPriority[i] }
    IN  IF present = {} THEN Null
        ELSE Some(dietMap[DietPriority[CHOOSE i \in present :
                                          \A k \in present : i <= k]])

\* the token of the recognised restriction that comes first in the list
FirstListed(restrictions) ==
    IF Recognised(restrictions) = {} THEN Null
    ELSE Some(dietMap[Lower(restrictions[
            CHOOSE j \in Recognised(restrictions) :
               \A k \in Recognised(restrictions) : j <= k])])

\* the diet tokens of the week calls of a generate request agree with `token`
DietTokensAre(token(_)) ==
    \A p \in Generating :
       /\ Len(req[p].calls) >= 1 =>
             req[p].calls[1].diet = token(RestrictionsOf(req[p].householdId, TRUE))
       /\ Len(req[p].calls) >= 2 =>
             req[p].calls[2].diet = token(RestrictionsOf(req[p].householdId, FALSE))

\* C11 as stated: the diet token sent with a week call is the token of the
\* recognised restriction that ranks highest in vegetarian > vegan >
\* gluten-free > dairy-free > keto > paleo, whatever the order in which the
\* restrictions are stored or aggregated, and it is absent iff none is
\* recognised.
C11_HighestRankedDiet == DietTokensAre(HighestRanked)

\* what mapDietaryRestrictions does instead: the diet token sent with a week
\* call is the token of the first restriction, in the order in which the
\* restrictions are stored and aggregated, that the taxonomy recognises
\* (compared in lower case), and it is absent iff none is recognised.
FirstListedDietSent ==
    /\ DietTokensAre(FirstListed)
    /\ \A p \in Generating :
          \A i \in 1..Len(req[p].calls) :
             (req[p].calls[i].diet = Null) <=>
                (Recognised(RestrictionsOf(req[p].householdId, i = 1)) = {})

\* two calls were made, one for restrictions stored as vegan, vegetarian and
\* one for restrictions stored as halal, Keto
FirstListedDietSeen ==
    \E p \in Generating :
       /\ Len(req[p].calls) = 2
       /\ RestrictionsOf(req[p].householdId, TRUE) = <<"vegan", "vegetarian">>
       /\ req[p].calls[1].diet = Some("vegan")
       /\ RestrictionsOf(req[p].householdId, FALSE) = <<"halal", "Keto">>
       /\ req[p].calls[2].diet = Some("ketogenic")

\* the number of week calls the claim allots to a generate request
WeekCallsAllotted(r) ==
    IF r.l.mealSuggestionMode = "user_preference" THEN 0
    ELSE IF \A i \in 1..Len(membersTable[r.householdId]) :
               SameMeals(membersTable[r.householdId][i])
         THEN 1
         ELSE 2

\* the recipe id a slot of the built plan carries, were it taken from the
\* entry of `plan` for the slot's day and meal type
IdFromBatch(plan, m) ==
    IF plan = Null \/ BatchEntry(plan, DayIndex(m.day), m.mealType) = Null
    THEN Null
    ELSE Some(ToString(BatchEntry(plan, DayIndex(m.day), m.mealType)[1].id))

\* every ai_suggest slot of the item a generate request has built is from the
\* batch of its cohort: member slots from the second, shared from the first
SlotsFromOwnBatch(r) ==
    (r.pc = "put" \/ r.puts > 0) =>
        \A k \in 1..Len(r.l.item.meals) :
           LET m == r.l.item.meals[k]
           IN  m.source = "ai_suggest" =>
                  IF Has(m, "forMemberId")
                  THEN /\ IdFromBatch(r.l.kidAiPlan, m) # Null
                       /\ m.recipeId = "kid-" \o m.forMemberId \o "-"
                                          \o IdFromBatch(r.l.kidAiPlan, m)[1]
                       /\ m.recipeName =
                            BatchEntry(r.l.kidAiPlan, DayIndex(m.day),
                                       m.mealType)[1].title
                  ELSE /\ IdFromBatch(r.l.aiPlan, m) # Null
                       /\ m.recipeId = IdFromBatch(r.l.aiPlan, m)[1]

\* C12: a generate request issues no week call in mode user_preference, one
\* in the other modes when no member eats separately and two when at least
\* one does, however many; it never holds more calls than that (no retry),
\* holds exactly that many when it goes on to write, and issues no call in
\* or after the step in which a call fails; every ai_suggest slot for a
\* member is taken from the second batch and every shared one from the first.
C12_WeekCalls ==
    [][ \A p \in Procs :
           (req'[p].op = "generate" /\ req'[p].l # <<>>) =>
              /\ Len(req'[p].calls) <= WeekCallsAllotted(req'[p])
              /\ \A i \in 1..Len(req'[p].calls) :
                    /\ req'[p].calls[i].api = "generateMealPlan"
                    /\ req'[p].calls[i].timeFrame = "week"
              /\ (req'[p].pc = "put" \/ req'[p].status = 200) =>
                    Len(req'[p].calls) = WeekCallsAllotted(req'[p])
              /\ ( /\ req[p].op = "generate"
                   /\ req[p].pc \in {"week1", "week2"}
                   /\ req'[p].pc = "idle" ) =>
                    /\ req'[p].status \in {429, 500}
                    /\ req'[p].calls = req[p].calls
              /\ SlotsFromOwnBatch(req'[p]) ]_vars

\* a plan was written in mode ai_suggest for a household with the separate
\* member Jake, vegetarian: two calls, two different batches, and Jake's
\* dinner of the first day is the third entry of the second batch
C12_Witness ==
    \E p \in Generating :
       /\ req[p].status = 200
       /\ req[p].l.mealSuggestionMode = "ai_suggest"
       /\ membersTable[req[p].householdId]
             = <<Adult(<<>>), Kid("jake", "Jake", <<"vegetarian">>)>>
       /\ Len(req[p].calls) = 2
       /\ req[p].calls[2].diet = Some("vegetarian")
       /\ req[p].l.aiPlan = Some(Week(100, "full"))
       /\ req[p].l.kidAiPlan = Some(Week(200, "sparse"))
       /\ \E k \in 1..Len(req[p].l.item.meals) :
             /\ Has(req[p].l.item.meals[k], "forMemberId")
             /\ req[p].l.item.meals[k].forMemberId = "jake"
             /\ req[p].l.item.meals[k].date = <<2025, 1, 6>>
             /\ req[p].l.item.meals[k].mealType = "dinner"
             /\ req[p].l.item.meals[k].recipeId = "kid-jake-202"

\* the slots of a stored plan that a request for (date, mealType, forMemberId)
\* addresses: same date and meal type, and the member's slot when a member
\* is named, a slot of no member when none is
Addressed(plan, date, mealType, forMemberId) ==
    { k \in 1..Len(plan.meals) :
         /\ plan.meals[k].date = date
         /\ plan.meals[k].mealType = mealType
         /\ IF forMemberId = Null
            THEN ~Has(plan.meals[k], "forMemberId")
            ELSE /\ Has(plan.meals[k], "forMemberId")
                 /\ plan.meals[k].forMemberId = forMemberId[1] }

\* request p has answered with statusCode, having called no service and
\* issued no put
Refused(p, statusCode) ==
    /\ req'[p].pc = "idle"
    /\ req'[p].status = statusCode
    /\ req'[p].calls = <<>>
    /\ req'[p].puts = 0
    /\ plansTable' = plansTable

\* C13: an updateMeal request with action custom and an empty or missing
\* name is answered 400; one (with a valid body) that addresses a plan that
\* does not exist, or a slot that no slot of the plan matches by date, meal
\* type and presence and value of the member id, is answered 404; in each
\* case within the step that receives it, with no service call, no put and
\* the plan store as it was.
C13_RefusedWithoutEffect ==
    [][ \A p \in Procs :
           (req'[p].op = "updateMeal" /\ now' = now + 1 /\ req'[p] # req[p]) =>
              LET body == req'[p].l
                  key == PlanKey(req'[p].householdId, body.startDate)
                  noName == body.action = "custom" /\ body.customMealName = ""
                  noPlan == key \notin DOMAIN plansTable
                  noSlot == /\ ~noPlan
                            /\ Addressed(plansTable[key], body.date, body.mealType,
                                         body.forMemberId) = {}
              IN  /\ noName => Refused(p, 400)
                  /\ (~noName /\ (noPlan \/ noSlot)) => Refused(p, 404)
                  /\ (~noName /\ ~noPlan /\ ~noSlot) => req'[p].pc # "idle" ]_vars

\* a request for a slot that the stored plan does not hold was answered 404
C13_Witness ==
    \E p \in Procs :
       /\ req[p].op = "updateMeal"
       /\ req[p].pc = "idle"
       /\ req[p].status = 404
       /\ req[p].message = "Meal not found in plan"
       /\ req[p].calls = <<>> /\ req[p].puts = 0
       /\ req[p].l.forMemberId = Some("zoe")
       /\ PlanKey(req[p].householdId, req[p].l.startDate) \in DOMAIN plansTable

\* the step in which request p, an updateMeal, is received
UpdateArrives(p) ==
    req'[p].op = "updateMeal" /\ now' = now + 1 /\ req'[p] # req[p]

\* the first slot the body of an updateMeal request addresses in the plan
\* stored under its start date; 0 when there is no such plan or slot
Target(householdId, body) ==
    IF PlanKey(householdId, body.startDate) \notin DOMAIN plansTable THEN 0
    ELSE LET hits == Addressed(plansTable[PlanKey(householdId, body.startDate)],
                               body.date, body.mealType, body.forMemberId)
         IN  IF hits = {} THEN 0
             ELSE CHOOSE k \in hits : \A j \in hits : k <= j

\* C14: an updateMeal request with action custom and a non-empty name, whose
\* plan and slot are found, goes to its put in the step that receives it,
\* whatever the slot held before and whatever the household's mode, with no
\* service call; the slot of the item it puts has the given name as
\* recipeName, source user_preference, isUserMeal true, recipeImage,
\* readyInMinutes, servings and sourceUrl null, updatedBy the caller and
\* updatedAt the time of the request; when the put takes effect the request
\* is answered 200 and the stored plan is that item.
C14_CustomResult ==
    [][ \A p \in Procs :
           /\ ( /\ UpdateArrives(p)
                /\ req'[p].l.action = "custom"
                /\ req'[p].l.customMealName # ""
                /\ Target(req'[p].householdId, req'[p].l) # 0 ) =>
                 LET k == Target(req'[p].householdId, req'[p].l)
                 IN  /\ req'[p].pc = "put"
                     /\ req'[p].calls = <<>>
                     /\ LET m == req'[p].l.item.meals[k]
                        IN  /\ m.recipeName = req'[p].l.customMealName
                            /\ m.source = "user_preference"
                            /\ m.isUserMeal = TRUE
                            /\ \A f \in {"recipeImage", "readyInMinutes",
                                         "servings", "sourceUrl"} :
                                  Has(m, f) => m[f] = Null
                            /\ m.updatedBy = req'[p].userId
                            /\ m.updatedAt = now'
           /\ ( /\ PutStep(p)
                /\ req[p].op = "updateMeal"
                /\ req[p].l.action = "custom"
                /\ plansTable' # plansTable ) =>
                 /\ req'[p].status = 200
                 /\ req'[p].calls = <<>>
                 /\ plansTable'[PlanKey(req[p].householdId, req[p].l.startDate)]
                       = req[p].l.item ]_vars

\* a custom name was stored in a member's slot that held a suggested recipe
C14_Witness ==
    \E p \in Procs :
       /\ req[p].op = "updateMeal"
       /\ req[p].status = 200
       /\ req[p].l.action = "custom"
       /\ req[p].l.forMemberId = Some("jake")
       /\ req[p].l.plan.meals[req[p].l.mealIndex].source = "ai_suggest"
       /\ req[p].l.plan.meals[req[p].l.mealIndex].servings # Null
       /\ plansTable[PlanKey(req[p].householdId, req[p].l.startDate)]
             .meals[req[p].l.mealIndex].recipeName = "tacos"

\* slot `new`, as a swap stores it, carries the external recipe that slot
\* `old` carried; generatePlan stores a member's suggested recipe n under
\* the recipeId kid-<member id>-<n>
SameExternalRecipe(old, new) ==
    /\ old.source = "ai_suggest"
    /\ new.source = "ai_suggest"
    /\ \/ old.recipeId = new.recipeId
       \/ /\ Has(old, "forMemberId")
          /\ old.recipeId = "kid-" \o old.forMemberId \o "-" \o new.recipeId

\* C15: a swap in a mode other than user_preference that goes on to write
\* never stores the external recipe the slot carried before, in shared slots
\* and in members' slots alike, slots written by generate included.
C15_SwapExcludesCurrent ==
    \A p \in Procs :
       ( /\ req[p].op = "updateMeal"
         /\ Has(req[p].l, "item")
         /\ req[p].l.action = "swap"
         /\ req[p].l.mode # "user_preference" ) =>
          ~SameExternalRecipe(req[p].l.plan.meals[req[p].l.mealIndex],
                              req[p].l.updatedMeal)

\* the items of the household's recurring list of the slot's meal type that
\* differ from the slot's current name
OtherListItems(preferences, mealType, currentMeal) ==
    { name \in Range(RecurringList(TypicalLists(preferences), mealType)) :
         name # currentMeal.recipeName }

\* C16: when the preferences read by a swap hold mode user_preference, the
\* swap goes on to write iff the household's recurring list of the slot's
\* meal type (breakfast, lunch, dinner or snacks) holds an item other than
\* the slot's current name; the slot it writes is named after such an item
\* and has source user_preference; otherwise it is answered 404 and the plan
\* store is unchanged.
C16_UserOnlySwap ==
    [][ \A p \in Procs :
           ( /\ req[p].pc = "prefs"
             /\ req'[p].pc # "prefs"
             /\ GetOr(prefsTable[req[p].householdId], "mealSuggestionMode",
                      "ai_and_user") = "user_preference" ) =>
              LET others == OtherListItems(prefsTable[req[p].householdId],
                                           req[p].l.mealType,
                                           req[p].l.plan.meals[req[p].l.mealIndex])
              IN  /\ plansTable' = plansTable
                  /\ req'[p].calls = <<>>
                  /\ IF others # {}
                     THEN /\ req'[p].pc = "put"
                          /\ req'[p].l.updatedMeal.recipeName \in others
                          /\ req'[p].l.updatedMeal.source = "user_preference"
                     ELSE /\ req'[p].pc = "idle"
                          /\ req'[p].status = 404 ]_vars

\* C17: a generate or swap request is answered 429 exactly in a step in
\* which the suggestion service answers one of its calls with the quota
\* signal (status 402); a call that fails otherwise and a put that the store
\* rejects are answered 500; a request that failed in either way has put
\* nothing and the step leaves the plan store as it was.
C17_RateLimitedIffQuota ==
    [][ \A p \in Procs :
           /\ \A status \in FailStatus :
                 ApiFail(p, status) =>
                    /\ req'[p].status = IF status = 402 THEN 429 ELSE 500
                    /\ req'[p].pc = "idle"
                    /\ req'[p].puts = 0
                    /\ plansTable' = plansTable
           /\ PutFail(p) =>
                 /\ req'[p].status = 500
                 /\ req'[p].puts = 0
                 /\ plansTable' = plansTable
           /\ (req'[p] # req[p] /\ req'[p].status = 429) =>
                 /\ ApiFail(p, 402)
                 /\ req[p].op \in {"generate", "updateMeal"}
                 /\ req[p].op = "updateMeal" => req[p].l.action = "swap" ]_vars

\* the second week call of a generate request met the quota signal: the
\* request was answered 429 and no plan is stored under its start date
C17_Witness ==
    \E p \in Procs :
       /\ req[p].op = "generate"
       /\ req[p].status = 429
       /\ Len(req[p].calls) = 2
       /\ req[p].puts = 0
       /\ PlanKey(req[p].householdId, req[p].l.startDate) \notin DOMAIN plansTable

\* C18: a generate request whose startDate is missing or is no calendar date
\* is answered 400 in the step that receives it, in every mode, with no
\* service call, no put and the plan store as it was.
C18_BadStartDateRefused ==
    [][ \A p \in Procs :
           (req'[p].op = "generate" /\ now' = now + 1 /\ req'[p] # req[p]) =>
              \A u \in Users, sd \in StartDateInputs :
                 ( /\ sd = Null \/ ~IsCalendarDate(sd)
                   /\ GenerateStart(p, u, sd) ) => Refused(p, 400) ]_vars

\* the attributes of a plan as generatePlan writes it
GeneratedAttributes ==
    {"PK", "SK", "startDate", "endDate", "meals", "mealSuggestionMode",
     "generatedBy", "generatedAt", "ttl"}

\* C19: when the put of a generate request takes effect, the document stored
\* under (household, startDate) is the item the request built and nothing
\* else: its slots, the mode it read and its generatedAt, no lastUpdated or
\* lastUpdatedBy, no slot with updatedAt or updatedBy; every plan stored
\* under another key is unchanged and no other key appears or disappears.
C19_GenerateReplaces ==
    [][ \A p \in Procs :
           ( /\ PutStep(p)
             /\ req[p].op = "generate"
             /\ req'[p].status = 200 ) =>
              LET key == PlanKey(req[p].householdId, req[p].l.startDate)
                  g == req[p].l
              IN  /\ DOMAIN plansTable' = (DOMAIN plansTable) \cup {key}
                  /\ \A k \in DOMAIN plansTable :
                        k # key => plansTable'[k] = plansTable[k]
                  /\ DOMAIN plansTable'[key] = GeneratedAttributes
                  /\ plansTable'[key].meals = CleanAll(BuildMeals(g))
                  /\ plansTable'[key].mealSuggestionMode = g.mealSuggestionMode
                  /\ plansTable'[key].generatedAt = g.item.generatedAt
                  /\ plansTable'[key].generatedAt \in g.t..now
                  /\ \A i \in 1..Len(plansTable'[key].meals) :
                        /\ ~Has(plansTable'[key].meals[i], "updatedAt")
                        /\ ~Has(plansTable'[key].meals[i], "updatedBy") ]_vars

\* a generate request has issued its put for a key under which a plan with a
\* custom override and the audit fields of an update is stored
C19_Witness ==
    \E p \in Procs :
       /\ req[p].op = "generate"
       /\ req[p].pc = "put"
       /\ LET key == PlanKey(req[p].householdId, req[p].l.startDate)
          IN  /\ key \in DOMAIN plansTable
              /\ Has(plansTable[key], "lastUpdated")
              /\ \E i \in 1..Len(plansTable[key].meals) :
                    plansTable[key].meals[i].recipeName = "tacos"

\* slot m is what a custom request with the given name leaves behind
IsCustomResult(m, name) ==
    /\ m.recipeName = name
    /\ m.source = "user_preference"
    /\ m.isUserMeal = TRUE
    /\ Has(m, "updatedAt")
    /\ m.recipeId = "custom-" \o ToString(m.updatedAt)
    /\ \A f \in {"recipeImage", "readyInMinutes", "servings", "sourceUrl"} :
          Has(m, f) => m[f] = Null

\* slots a and b differ at most in the generated id and the audit timestamp
SameButIdAndTime(a, b) ==
    /\ DOMAIN a = DOMAIN b
    /\ \A f \in (DOMAIN a) \ {"recipeId", "updatedAt"} : a[f] = b[f]

\* C20: a custom request that addresses a slot which an earlier custom
\* request with the same start date, date, meal type, member and name has
\* already replaced builds and stores a plan with the same number of slots,
\* every other slot identical, and the addressed slot identical in name,
\* source, isUserMeal, null metadata and every other field but recipeId and
\* updatedAt: repeating the request changes nothing else.
C20_CustomRepeatable ==
    [][ \A p \in Procs :
           /\ ( /\ UpdateArrives(p)
                /\ req'[p].l.action = "custom"
                /\ req'[p].l.customMealName # ""
                /\ Target(req'[p].householdId, req'[p].l) # 0 ) =>
                 LET k == Target(req'[p].householdId, req'[p].l)
                     stored == plansTable[PlanKey(req'[p].householdId,
                                                  req'[p].l.startDate)]
                 IN  IsCustomResult(stored.meals[k], req'[p].l.customMealName) =>
                        /\ req'[p].pc = "put"
                        /\ Len(req'[p].l.item.meals) = Len(stored.meals)
                        /\ \A i \in 1..Len(stored.meals) :
                              IF i = k
                              THEN /\ SameButIdAndTime(stored.meals[i],
                                                       req'[p].l.item.meals[i])
                                   /\ IsCustomResult(req'[p].l.item.meals[i],
                                                     req'[p].l.customMealName)
                              ELSE req'[p].l.item.meals[i] = stored.meals[i]
           /\ ( /\ PutStep(p)
                /\ req[p].op = "updateMeal"
                /\ req[p].l.action = "custom"
                /\ req'[p].status = 200 ) =>
                 plansTable'[PlanKey(req[p].householdId, req[p].l.startDate)].meals
                    = req[p].l.item.meals ]_vars

\* the same custom request was applied twice: the second one loaded a plan
\* whose addressed slot the first had replaced, and its put took effect
C20_Witness ==
    \E p \in Procs :
       /\ req[p].op = "updateMeal"
       /\ req[p].status = 200
       /\ req[p].l.action = "custom"
       /\ IsCustomResult(req[p].l.plan.meals[req[p].l.mealIndex],
                         req[p].l.customMealName)
       /\ req[p].l.plan.meals[req[p].l.mealIndex].updatedAt
             < req[p].l.updatedMeal.updatedAt
       /\ plansTable[PlanKey(req[p].householdId, req[p].l.startDate)].meals
             = req[p].l.item.meals

\* C21: in a plan generated in mode ai_suggest, for every day number i in
\* 0..6 and every meal type but snacks, there is exactly one shared slot when
\* the shared batch has an entry for day i at position breakfast 0, lunch 1,
\* dinner 2, and it carries that recipe with source ai_suggest; there is no
\* shared slot when the batch has no entry there, whatever the household's
\* recurring lists hold.
C21_AiOnlyFromBatch ==
    \A p \in Generating :
       (req[p].l.mealSuggestionMode = "ai_suggest" /\ Has(req[p].l, "item")) =>
          \A i \in 0..6, mt \in {"breakfast", "lunch", "dinner"} :
             LET item == req[p].l.item
                 slots == SharedSlots(item, i, mt)
                 entry == BatchEntry(req[p].l.aiPlan, i, mt)
             IN  IF entry # Null
                 THEN /\ Cardinality(slots) = 1
                      /\ \A k \in slots :
                            /\ item.meals[k].source = "ai_suggest"
                            /\ item.meals[k].isUserMeal = FALSE
                            /\ item.meals[k].recipeId = ToString(entry[1].id)
                            /\ item.meals[k].recipeName = entry[1].title
                 ELSE slots = {}

\* an ai_suggest plan has been built from a batch with missing entries while
\* the breakfast and dinner lists are non-empty: day 0 has the batch's
\* dinner, day 1 its breakfast and no dinner, day 2 no breakfast
C21_Witness ==
    \E p \in Generating :
       /\ req[p].l.mealSuggestionMode = "ai_suggest"
       /\ Has(req[p].l, "item")
       /\ req[p].l.aiPlan = Some(Week(200, "sparse"))
       /\ Len(req[p].l.lists.typicalBreakfast) > 0
       /\ Len(req[p].l.lists.typicalDinner) > 0
       /\ \E k \in SharedSlots(req[p].l.item, 0, "dinner") :
             req[p].l.item.meals[k].recipeId = "202"
       /\ \E k \in SharedSlots(req[p].l.item, 1, "breakfast") :
             req[p].l.item.meals[k].recipeId = "203"
       /\ SharedSlots(req[p].l.item, 1, "dinner") = {}
       /\ SharedSlots(req[p].l.item, 2, "breakfast") = {}

\* the shared cohort of a household as a swap of a shared slot aggregates it:
\* the members who eat with the adults, then the requesting user's profile
SharedCohort(householdId, userId) ==
    FilterMembers(membersTable[householdId], TRUE) \o <<UserProfile(userId)>>

\* C22: the diet and exclude parameters of the first week call of a generate
\* request are derived from the restrictions and allergies of the members
\* who eat with the adults together with those of the requesting user, the
\* aggregate a swap of a shared slot of the same household uses.
C22_SharedCohortWithRequester ==
    \A p \in Generating :
       Len(req[p].calls) >= 1 =>
          LET cohort == SharedCohort(req[p].householdId, req[p].userId)
          IN  /\ req[p].calls[1].diet =
                    mapDietaryRestrictions(
                       Aggregate(<<>>, cohort, "dietaryRestrictions"))
              /\ req[p].calls[1].exclude =
                    OrUndefined(mapAllergiesToExclude(
                       Aggregate(<<>>, cohort, "allergies")))

\* the parameters a search is sent with when they are derived from `cohort`
SearchParameters(cohort) ==
    [diet |-> mapDietaryRestrictions(Aggregate(<<>>, cohort, "dietaryRestrictions")),
     excludeIngredients |->
        OrUndefined(mapAllergiesToExclude(Aggregate(<<>>, cohort, "allergies")))]

\* C23: the search of a swap in a mode other than user_preference is sent
\* with diet and excludeIngredients derived, when the request names a member,
\* from the restrictions and allergies of that member alone, and when it
\* names none, from those of the members who are not marked as eating
\* separately followed by the requesting user's profile: no separate member
\* contributes to a shared slot's search, and nobody but the member to a
\* member's.
C23_SwapCohort ==
    \A p \in Procs :
       (req[p].op = "updateMeal" /\ req[p].calls # <<>>) =>
          LET members == membersTable[req[p].householdId]
              named == SelectSeq(members,
                          LAMBDA m : m.id = req[p].l.forMemberId[1])
              shared == SelectSeq(members,
                           LAMBDA m : ~Has(m, "sameAsAdults")
                                      \/ m.sameAsAdults # FALSE)
              expected == IF req[p].l.forMemberId # Null
                          THEN SearchParameters(named)
                          ELSE SearchParameters(shared \o <<UserProfile(req[p].userId)>>)
          IN  /\ Len(req[p].calls) = 1
              /\ req[p].calls[1].api = "searchRecipes"
              /\ req[p].calls[1].diet = expected.diet
              /\ req[p].calls[1].excludeIngredients = expected.excludeIngredients

\* in a household with the separate members Mia (Keto, milk) and Jake
\* (vegetarian), a swap of Jake's slot has searched with Jake's diet and no
\* exclusion
C23_Witness ==
    \E p \in Procs :
       /\ req[p].op = "updateMeal"
       /\ req[p].l.forMemberId = Some("jake")
       /\ req[p].calls # <<>>
       /\ req[p].calls[1].diet = Some("vegetarian")
       /\ req[p].calls[1].excludeIngredients = Null
       /\ \E i \in 1..Len(membersTable[req[p].householdId]) :
             membersTable[req[p].householdId][i].id = "mia"

\* the positions of the slots of a plan for day number i, a meal type and a
\* member
MemberSlots(item, i, mealType, memberId) ==
    { k \in 1..Len(item.meals) :
         /\ Ordinal(item.meals[k].date) = Ordinal(item.startDate) + i
         /\ item.meals[k].mealType = mealType
         /\ Has(item.meals[k], "forMemberId")
         /\ item.meals[k].forMemberId = memberId }

\* a member's own recurring list of a meal type
OwnList(member, mealType) ==
    IF Has(member, "mealPreferences")
    THEN member.mealPreferences[mealType]
    ELSE <<>>

\* C24: in a plan generated in mode user_preference, and on the even day
\* numbers of a plan generated in mode ai_and_user, every member who eats
\* separately has, for every meal type but snacks, exactly one slot with
\* source user_preference named after an item of the member's own list or,
\* when that list is empty, of the household's list of the type, whenever
\* the list so chosen is non-empty.
C24_MemberListWithFallback ==
    \A p \in Generating :
       Has(req[p].l, "item") =>
          \A n \in 1..Len(membersTable[req[p].householdId]),
             i \in 0..6, mt \in {"breakfast", "lunch", "dinner"} :
             LET member == membersTable[req[p].householdId][n]
                 item == req[p].l.item
                 own == OwnList(member, mt)
                 list == IF own # <<>> THEN own
                         ELSE RecurringList(req[p].l.lists, mt)
                 slots == MemberSlots(item, i, mt, member.id)
             IN  ( /\ ~SameMeals(member)
                   /\ list # <<>>
                   /\ \/ req[p].l.mealSuggestionMode = "user_preference"
                      \/ /\ req[p].l.mealSuggestionMode = "ai_and_user"
                         /\ i % 2 = 0 ) =>
                    /\ Cardinality(slots) = 1
                    /\ \A k \in slots :
                          /\ item.meals[k].source = "user_preference"
                          /\ item.meals[k].recipeName \in Range(list)

\* some member who eats separately has a non-empty recurring list of its own
SomeMemberList(familyMembers) ==
    \E i \in 1..Len(familyMembers) :
       /\ ~SameMeals(familyMembers[i])
       /\ \E mt \in {"breakfast", "lunch", "dinner"} :
             OwnList(familyMembers[i], mt) # <<>>

\* C25: a generate for a valid start date arriving while the mode is
\* user_preference, every recurring list of the household is empty and some
\* member who eats separately has a non-empty list of its own is not
\* refused: it builds a plan that holds slots of that member and goes on to
\* store it.
C25_GuardCountsMemberLists ==
    [][ \A p \in Procs :
          ( /\ GenerateArrives(p)
            /\ req'[p].status # 400 \/ req'[p].message # "startDate is required (YYYY-MM-DD)"
            /\ GetOr(prefsTable[req'[p].householdId], "mealSuggestionMode",
                     "ai_and_user") = "user_preference"
            /\ ~hasAnyTypicalMeals(TypicalLists(prefsTable[req'[p].householdId]))
            /\ SomeMemberList(membersTable[req'[p].householdId]) )
          => /\ req'[p].pc = "put"
             /\ \E k \in 1..Len(req'[p].l.item.meals) :
                   Has(req'[p].l.item.meals[k], "forMemberId")
      ]_vars

\* C26: a swap takes its source from the mode the household's preferences
\* hold when the swap reads them, whatever mode the plan records: under
\* user_preference it calls no service and the slot it writes has source
\* user_preference; under any other mode it searches the service and the
\* slot it writes has source ai_suggest; and the plan it stores records the
\* mode the loaded plan recorded.
C26_SwapUsesCurrentMode ==
    [][ \A p \in Procs :
           /\ (req[p].pc = "prefs" /\ req'[p].pc # "prefs") =>
                 IF GetOr(prefsTable[req[p].householdId], "mealSuggestionMode",
                          "ai_and_user") = "user_preference"
                 THEN /\ req'[p].calls = <<>>
                      /\ req'[p].pc \in {"put", "idle"}
                      /\ req'[p].pc = "put" =>
                            /\ req'[p].l.updatedMeal.source = "user_preference"
                            /\ req'[p].l.updatedMeal.isUserMeal = TRUE
                 ELSE /\ req'[p].pc = "search"
                      /\ Len(req'[p].calls) = 1
           /\ (req[p].pc = "search" /\ req'[p].pc = "put") =>
                 /\ req'[p].l.updatedMeal.source = "ai_suggest"
                 /\ req'[p].l.updatedMeal.isUserMeal = FALSE
           /\ ( /\ PutStep(p)
                /\ req[p].op = "updateMeal"
                /\ req[p].l.action = "swap"
                /\ req'[p].status = 200 ) =>
                 LET stored == plansTable'[PlanKey(req[p].householdId,
                                                   req[p].l.startDate)]
                 IN  /\ stored.mealSuggestionMode = req[p].l.plan.mealSuggestionMode
                     /\ stored.meals[req[p].l.mealIndex] = req[p].l.updatedMeal
      ]_vars

\* a swap has stored a suggested recipe, in place of a list item, in a plan
\* that records mode user_preference
C26_Witness ==
    \E p \in Procs :
       /\ req[p].op = "updateMeal"
       /\ req[p].status = 200
       /\ req[p].l.action = "swap"
       /\ LET stored == plansTable[PlanKey(req[p].householdId, req[p].l.startDate)]
          IN  /\ stored.mealSuggestionMode = "user_preference"
              /\ req[p].l.plan.mealSuggestionMode = "user_preference"
              /\ stored.meals[req[p].l.mealIndex].source = "ai_suggest"
              /\ req[p].l.plan.meals[req[p].l.mealIndex].source = "user_preference"

\* C27: every slot of a plan that a generate request builds has a meal type
\* that the household's preferences list in mealsToInclude, in every mode.
C27_OnlyEnabledMealTypes ==
    \A p \in Generating :
       Has(req[p].l, "item") =>
          \A k \in 1..Len(req[p].l.item.meals) :
             req[p].l.item.meals[k].mealType
                \in Range(GetOr(prefsTable[req[p].householdId],
                                "mealsToInclude", MealTypes))

\* C28: requests on one plan key are neither serialised nor checked against
\* each other.  Every put succeeds and stores exactly the item its request
\* built; the item of a swap or setCustom is the plan that request read with
\* its one slot replaced, whatever the table holds by then; so the stored
\* plan is the item of the request whose put came last.
C28_LastWriteWins ==
    [][\A p \in Procs :
          PutStep(p) =>
             LET l == req[p].l
                 key == <<l.item.PK, l.item.SK>>
             IN  /\ req'[p].status = 200
                 /\ plansTable' = [k \in (DOMAIN plansTable) \cup {key} |->
                                     IF k = key THEN l.item ELSE plansTable[k]]
                 /\ req[p].op = "updateMeal" =>
                       /\ l.item.meals = [l.plan.meals EXCEPT ![l.mealIndex] = l.updatedMeal]
                       /\ \A f \in DOMAIN l.plan \ {"meals", "lastUpdated", "lastUpdatedBy"} :
                             l.item[f] = l.plan[f]]_vars

\* two swaps that read the same plan and replaced different slots have both
\* returned 200, and the stored plan holds the replacement of one of them
\* and, in the other's slot, the recipe both had read
C28_Witness ==
    \E p, q \in Procs :
       /\ p # q
       /\ \A x \in {p, q} :
             /\ req[x].op = "updateMeal" /\ req[x].status = 200
             /\ req[x].l.action = "swap"
       /\ req[p].l.plan = req[q].l.plan
       /\ req[p].l.mealIndex # req[q].l.mealIndex
       /\ LET stored == plansTable[PlanKey(req[p].householdId, req[p].l.startDate)]
          IN  /\ stored = req[q].l.item
              /\ stored.meals[req[q].l.mealIndex] = req[q].l.updatedMeal
              /\ stored.meals[req[p].l.mealIndex] = req[p].l.plan.meals[req[p].l.mealIndex]
              /\ stored.meals[req[p].l.mealIndex] # req[p].l.updatedMeal

\* a swap that read the plan before a generate request stored its plan has
\* put afterwards: the stored plan is the old plan with one slot replaced
SwapOverwritesRegenerated ==
    \E p, q \in Procs :
       /\ req[p].op = "updateMeal" /\ req[p].status = 200 /\ req[p].l.action = "swap"
       /\ req[q].op = "generate" /\ req[q].status = 200
       /\ req[q].l.item # req[p].l.plan
       /\ <<req[q].l.item.PK, req[q].l.item.SK>> = <<req[p].l.item.PK, req[p].l.item.SK>>
       /\ plansTable[<<req[p].l.item.PK, req[p].l.item.SK>>] = req[p].l.item
       /\ req[q].l.item.generatedAt > req[p].l.plan.generatedAt
       /\ req[p].l.item.generatedAt = req[p].l.plan.generatedAt

\* what a swap or setCustom request addresses a slot by
SlotKey(m) ==
    <<m.date, m.mealType, IF Has(m, "forMemberId") THEN <<m.forMemberId>> ELSE <<>>>>

UniqueSlots(meals) ==
    Cardinality({ SlotKey(meals[i]) : i \in 1..Len(meals) }) = Len(meals)

\* C29: every stored plan, and every item on its way to the store, holds at
\* most one slot per (date, mealType, member or shared); the slot a swap or
\* setCustom request has found is the only one of the plan it read that
\* matches the request.
C29_UniqueSlots ==
    /\ \A k \in DOMAIN plansTable : UniqueSlots(plansTable[k].meals)
    /\ \A p \in Procs :
          /\ Has(req[p].l, "item") => UniqueSlots(req[p].l.item.meals)
          /\ (Has(req[p].l, "mealIndex") /\ req[p].l.mealIndex > 0) =>
                \A i \in 1..Len(req[p].l.plan.meals) :
                   SlotKey(req[p].l.plan.meals[i])
                      = <<req[p].l.date, req[p].l.mealType, req[p].l.forMemberId>>
                   <=> i = req[p].l.mealIndex

\* the stored plan of a household with kids, generated by one request and
\* changed by a swap or setCustom of a later one, holds a shared slot and a
\* kid's slot for the date and meal type of the request
C29_Witness ==
    \E p \in Procs :
       /\ req[p].op = "updateMeal" /\ req[p].status = 200
       /\ LET stored == plansTable[PlanKey(req[p].householdId, req[p].l.startDate)]
          IN  /\ stored = req[p].l.item
              /\ stored.generatedAt > 0
              /\ \E i, j \in 1..Len(stored.meals) :
                    /\ stored.meals[i].date = req[p].l.date
                    /\ stored.meals[j].date = req[p].l.date
                    /\ stored.meals[i].mealType = req[p].l.mealType
                    /\ stored.meals[j].mealType = req[p].l.mealType
                    /\ ~Has(stored.meals[i], "forMemberId")
                    /\ Has(stored.meals[j], "forMemberId")

\* C30: a request acts under the household of its caller's profile.  Every
\* step of a request leaves the plans of every other household as they were;
\* the plan a swap or setCustom has read and the item a request puts carry
\* the partition key of the caller's household; what getPlan returns is the
\* view of a stored plan of the caller's household and of no plan of another.
C30_HouseholdIsolation ==
    [][\A p \in Procs :
          req'[p] # req[p] =>
             LET r == req'[p]
                 own == PK(HouseholdOf(r.userId))
             IN  /\ r.householdId = HouseholdOf(r.userId)
                 /\ \A k \in (DOMAIN plansTable) \cup (DOMAIN plansTable') :
                       k[1] # own =>
                          /\ k \in DOMAIN plansTable
                          /\ k \in DOMAIN plansTable'
                          /\ plansTable'[k] = plansTable[k]
                 /\ Has(r.l, "plan") => r.l.plan.PK = own
                 /\ Has(r.l, "item") => r.l.item.PK = own
                 /\ (r.op = "getPlan" /\ r.l.body.plan # Null) =>
                       /\ \E k \in DOMAIN plansTable :
                             k[1] = own /\ r.l.body.plan[1] = PlanView(plansTable[k])
                       /\ \A k \in DOMAIN plansTable :
                             k[1] # own => r.l.body.plan[1] # PlanView(plansTable[k])]_vars

\* a user has asked for the most recent plan and got the plan of the own
\* household while another household holds a plan of a later week
C30_Witness ==
    \E p \in Procs :
       /\ req[p].op = "getPlan" /\ req[p].status = 200
       /\ req[p].l.startDate = Null
       /\ req[p].l.body.plan # Null
       /\ \E k \in DOMAIN plansTable :
             /\ k[1] # PK(req[p].householdId)
             /\ DateBefore(req[p].l.body.plan[1].startDate, k[2][2])
             /\ plansTable[k].generatedAt > 0

====
